---- MODULE Spec2Model ----
(***************************************************************************)
(* Retrieval-and-normalisation pipeline of the clinical-trials client:     *)
(* APIHandler (utils/api_handler.py) and the Field Extractor               *)
(* (utils/utils.py).                                                       *)
(*                                                                         *)
(* Python values are tagged records:                                       *)
(*   None            [t |-> "None"]                                        *)
(*   str             [t |-> "str",  s  |-> sequence of 1-character strings]*)
(*   int             [t |-> "int",  n  |-> integer]                        *)
(*   bool            [t |-> "bool", b  |-> BOOLEAN]                        *)
(*   list            [t |-> "list", xs |-> sequence of values]             *)
(*   dict            [t |-> "dict", m  |-> function from keys to values]   *)
(* A raised exception is [t |-> "raise", ...]; it is an outcome of a call, *)
(* never a Python value stored in a container.                             *)
(*                                                                         *)
(* TLC evaluates an operator's argument anew at each use when it collects  *)
(* coverage, so an operator that uses an argument several times first      *)
(* binds it to its value: Op(e) == CHOOSE r \in {OpVal(x) : x \in {e}} : TRUE *)
(* is OpVal(e) with e evaluated once.                                      *)
(***************************************************************************)
EXTENDS Integers, Sequences, FiniteSets, TLC

\* ------------------------------------------------------------------ bounds
\* Upper bound on the number of requests.get calls of one fetch_studies call
\* (the code has none: the loop is `while True`).
MaxRequests == 3
\* Upper bound on the number of edits applied to a base candidate before it is
\* handed to structure_clinical_trial.
MaxEdits == 1
\* Upper bound on the number of times a function is applied to one argument.
MaxRuns == 2
\* Upper bound on the number of invocations of one session.
MaxCalls == 2
\* Upper bound on the number of operations on the session state.
MaxStateOps == 3

\* ------------------------------------------------------------ Python values
None == [t |-> "None"]
Str(s) == [t |-> "str", s |-> s]
PyInt(n) == [t |-> "int", n |-> n]
Bool(b) == [t |-> "bool", b |-> b]
List(xs) == [t |-> "list", xs |-> xs]
Dict(m) == [t |-> "dict", m |-> m]

EmptyMap == [k \in {} |-> None]
EmptyDict == Dict(EmptyMap)
EmptyStr == Str(<< >>)

\* isinstance(v, dict) / isinstance(v, list) / isinstance(v, str)
IsDict(v) == v.t = "dict"
IsList(v) == v.t = "list"
IsStr(v) == v.t = "str"

\* Faulty variant of MapUpdate: the entries already there win.
MapUpdateKeepFirst(a, b) ==
    [k \in (DOMAIN a) \cup (DOMAIN b) |-> IF k \in DOMAIN a THEN a[k] ELSE b[k]]

\* dict.update(other) on the underlying mappings: other's entries win.
MapUpdate(a, b) ==
    [k \in (DOMAIN a) \cup (DOMAIN b) |-> IF k \in DOMAIN b THEN b[k] ELSE a[k]]

\* d[key] = value on the underlying mapping.
MapSet(a, key, value) == MapUpdate(a, key :> value)

\* ','.join(xs) for a sequence xs of str values: the characters of the
\* elements with one "," between neighbours.
RECURSIVE JoinComma(_)
JoinCommaVal(xs) ==
    IF Len(xs) = 0 THEN << >>
    ELSE IF Len(xs) = 1 THEN xs[1].s
    ELSE xs[1].s \o <<",">> \o JoinComma(Tail(xs))
JoinComma(pieces) == CHOOSE r \in { JoinCommaVal(xs) : xs \in {pieces} } : TRUE

\* An exception leaving a call: the outcome of an expression, not a value.
Raise(kind) == [t |-> "raise", kind |-> kind]
IsRaise(v) == v.t = "raise"

\* bool(v): the truth value Python gives a value.
Truthy(v) ==
    CASE v.t = "None" -> FALSE
      [] v.t = "str"  -> v.s # << >>
      [] v.t = "int"  -> v.n # 0
      [] v.t = "bool" -> v.b
      [] v.t = "list" -> v.xs # << >>
      [] v.t = "dict" -> DOMAIN v.m # {}
      [] v.t = "date" -> TRUE

\* Faulty variant of GetVal: v[key] in place of v.get(key, default), KeyError
\* on a missing key.
GetValSubscript(v, key, default) ==
    IF IsRaise(v) THEN v
    ELSE IF IsDict(v) THEN (IF key \in DOMAIN v.m THEN v.m[key] ELSE Raise("KeyError"))
    ELSE Raise("AttributeError")

\* v.get(key, default): only a dict has .get; on anything else the attribute
\* lookup raises AttributeError.  An exception raised while computing v
\* propagates.
GetVal(v, key, default) ==
    IF IsRaise(v) THEN v
    ELSE IF IsDict(v) THEN (IF key \in DOMAIN v.m THEN v.m[key] ELSE default)
    ELSE Raise("AttributeError")
Get(v, key, default) == CHOOSE r \in { GetVal(x, key, default) : x \in {v} } : TRUE

\* ------------------------------------------------------------- text helpers
Whitespace == {" ", "\t", "\n", "\r"}
Digits == {"0", "1", "2", "3", "4", "5", "6", "7", "8", "9"}

\* pat occurs in s at position i.
MatchesAt(s, pat, i) ==
    /\ i + Len(pat) - 1 <= Len(s)
    /\ \A j \in 1..Len(pat) : s[i + j - 1] = pat[j]

\* `pat in s` for two strings.
Contains(s, pat) == \E i \in 1..(Len(s) + 1) : MatchesAt(s, pat, i)

\* s.split('\n'): the pieces between the newlines, empty pieces included.
RECURSIVE SplitLines(_)
SplitLinesVal(s) ==
    IF \A i \in 1..Len(s) : s[i] # "\n" THEN <<s>>
    ELSE LET i == CHOOSE i \in 1..Len(s) : s[i] = "\n" /\ \A j \in 1..(i - 1) : s[j] # "\n"
         IN <<SubSeq(s, 1, i - 1)>> \o SplitLines(SubSeq(s, i + 1, Len(s)))
SplitLines(text) == CHOOSE r \in { SplitLinesVal(s) : s \in {text} } : TRUE

\* s.strip(): leading and trailing whitespace removed.
RECURSIVE Strip(_)
StripVal(s) ==
    IF s = << >> THEN s
    ELSE IF Head(s) \in Whitespace THEN Strip(Tail(s))
    ELSE IF s[Len(s)] \in Whitespace THEN Strip(SubSeq(s, 1, Len(s) - 1))
    ELSE s
Strip(text) == CHOOSE r \in { StripVal(s) : s \in {text} } : TRUE

\* '\n'.join(xs) for a sequence of character sequences.
RECURSIVE JoinLines(_)
JoinLinesVal(xs) ==
    IF Len(xs) = 0 THEN << >>
    ELSE IF Len(xs) = 1 THEN xs[1]
    ELSE xs[1] \o <<"\n">> \o JoinLines(Tail(xs))
JoinLines(pieces) == CHOOSE r \in { JoinLinesVal(xs) : xs \in {pieces} } : TRUE

\* ---------------------------------------------------------------- clean_html
\* For s[i] = "<": the index of the first ">" that '<.*?>' reaches from there
\* ('.' does not match a newline), or 0 when there is none.
CloseAt(s, i) ==
    LET ends == { j \in (i + 1)..Len(s) : s[j] = ">" /\ \A k \in (i + 1)..(j - 1) : s[k] # "\n" }
    IN IF ends = {} THEN 0 ELSE CHOOSE j \in ends : \A k \in ends : j <= k

\* The positions where '<.*?>' matches.
TagStarts(s) == { i \in 1..Len(s) : s[i] = "<" /\ CloseAt(s, i) > 0 }

\* re.sub('<.*?>', '', s): the leftmost match is removed, and the scan goes on
\* after it.
RECURSIVE StripTags(_)
StripTagsVal(s) ==
    IF TagStarts(s) = {} THEN s
    ELSE LET i == CHOOSE i \in TagStarts(s) : \A k \in TagStarts(s) : i <= k
         IN SubSeq(s, 1, i - 1) \o StripTags(SubSeq(s, CloseAt(s, i) + 1, Len(s)))
StripTags(text) == CHOOSE r \in { StripTagsVal(s) : s \in {text} } : TRUE

\* Faulty variant of clean_html_val: the text is also stripped of its
\* surrounding whitespace.
clean_html_stripped(raw_html) ==
    IF IsRaise(raw_html) THEN raw_html
    ELSE IF IsStr(raw_html) THEN Str(Strip(StripTags(raw_html.s)))
    ELSE Raise("TypeError")

\* clean_html(raw_html): re.sub raises TypeError on anything but a string.
clean_html_val(raw_html) ==
    IF IsRaise(raw_html) THEN raw_html
    ELSE IF IsStr(raw_html) THEN Str(StripTags(raw_html.s))
    ELSE Raise("TypeError")
clean_html(raw_html) == CHOOSE r \in { clean_html_val(x) : x \in {raw_html} } : TRUE

\* ---------------------------------------------------------------- parse_date
UpperLetters == <<"A","B","C","D","E","F","G","H","I","J","K","L","M","N","O","P","Q","R","S","T","U","V","W","X","Y","Z">>
LowerLetters == <<"a","b","c","d","e","f","g","h","i","j","k","l","m","n","o","p","q","r","s","t","u","v","w","x","y","z">>
\* The lower-case form of a character (%B is matched ignoring case).
Lower(c) ==
    IF \E i \in 1..26 : UpperLetters[i] = c
    THEN LowerLetters[CHOOSE i \in 1..26 : UpperLetters[i] = c]
    ELSE c
LowerAll(s) == [i \in 1..Len(s) |-> Lower(s[i])]

\* The full month names of the C locale, January first.
MonthNames ==
    << <<"j","a","n","u","a","r","y">>,
       <<"f","e","b","r","u","a","r","y">>,
       <<"m","a","r","c","h">>,
       <<"a","p","r","i","l">>,
       <<"m","a","y">>,
       <<"j","u","n","e">>,
       <<"j","u","l","y">>,
       <<"a","u","g","u","s","t">>,
       <<"s","e","p","t","e","m","b","e","r">>,
       <<"o","c","t","o","b","e","r">>,
       <<"n","o","v","e","m","b","e","r">>,
       <<"d","e","c","e","m","b","e","r">> >>

DigitChars == <<"0", "1", "2", "3", "4", "5", "6", "7", "8", "9">>
DigitVal(c) == (CHOOSE i \in 1..10 : DigitChars[i] = c) - 1
AllDigits(s) == \A i \in 1..Len(s) : s[i] \in Digits
RECURSIVE NumVal(_)
NumValOf(s) == IF s = << >> THEN 0 ELSE 10 * NumVal(SubSeq(s, 1, Len(s) - 1)) + DigitVal(s[Len(s)])
NumVal(digits) == CHOOSE r \in { NumValOf(s) : s \in {digits} } : TRUE

\* The number of leading whitespace characters of s.
LeadingWs(s) ==
    LET ns == { n \in 0..Len(s) : \A i \in 1..n : s[i] \in Whitespace }
    IN CHOOSE n \in ns : \A k \in ns : k <= n

IsLeap(y) == (y % 4 = 0 /\ y % 100 # 0) \/ y % 400 = 0
DaysIn(m, y) ==
    IF m = 2 THEN (IF IsLeap(y) THEN 29 ELSE 28)
    ELSE IF m \in {4, 6, 9, 11} THEN 30 ELSE 31

\* The day directive %d: 3[0-1] | [1-2]\d | 0[1-9] | [1-9]  (the form " [1-9]"
\* is covered by the whitespace run before it).
IsDayToken(s) ==
    /\ AllDigits(s)
    /\ \/ Len(s) = 1 /\ s[1] # "0"
       \/ Len(s) = 2 /\ s[1] \in {"1", "2"}
       \/ Len(s) = 2 /\ s[1] = "3" /\ s[2] \in {"0", "1"}
       \/ Len(s) = 2 /\ s[1] = "0" /\ s[2] # "0"

NoDate == [ok |-> FALSE, y |-> 0, m |-> 0, d |-> 0]

\* The fields after the month name m of s: whitespace, day, ",", whitespace,
\* four digits, end of the string.
StrptimeRest(m, r1) ==
    LET w1 == LeadingWs(r1)
        cs == { i \in (w1 + 1)..Len(r1) : r1[i] = "," }
    IN IF w1 = 0 \/ cs = {} THEN NoDate
       ELSE LET c == CHOOSE i \in cs : \A k \in cs : i <= k
                day == SubSeq(r1, w1 + 1, c - 1)
                w2 == LeadingWs(SubSeq(r1, c + 1, Len(r1)))
                year == SubSeq(r1, c + w2 + 1, Len(r1))
            IN IF /\ IsDayToken(day)
                  /\ w2 > 0
                  /\ Len(year) = 4
                  /\ AllDigits(year)
                  /\ NumVal(year) >= 1
                  /\ NumVal(day) <= DaysIn(m, NumVal(year))
               THEN [ok |-> TRUE, y |-> NumVal(year), m |-> m, d |-> NumVal(day)]
               ELSE NoDate

\* datetime.strptime(s, "%B %d, %Y"): the date, or ok = FALSE where strptime
\* raises ValueError (no match, unconverted data, or a date that does not exist).
StrptimeVal(s) ==
    LET ms == UNION { { m \in 1..12 : MatchesAt(low, MonthNames[m], 1) } : low \in {LowerAll(s)} }
    IN IF ms = {} THEN NoDate
       ELSE CHOOSE r \in { StrptimeRest(m, SubSeq(s, Len(MonthNames[m]) + 1, Len(s))) : m \in ms } : TRUE
Strptime(text) == CHOOSE r \in { StrptimeVal(s) : s \in {text} } : TRUE

\* n in decimal, zero-padded to width w.
RECURSIVE Pad(_, _)
PadVal(n, w) == IF w = 0 THEN << >> ELSE Pad(n \div 10, w - 1) \o <<DigitChars[(n % 10) + 1]>>
Pad(number, w) == CHOOSE r \in { PadVal(n, w) : n \in {number} } : TRUE

\* strftime("%Y-%m-%d")
Strftime(dt) == Pad(dt.y, 4) \o <<"-">> \o Pad(dt.m, 2) \o <<"-">> \o Pad(dt.d, 2)

\* parse_date(date_string): a falsy value gives None; strptime raises TypeError
\* (not caught) on a truthy non-string and ValueError (caught) on a string it
\* cannot convert.
parse_date_val(date_string) ==
    IF IsRaise(date_string) THEN date_string
    ELSE IF ~Truthy(date_string) THEN None
    ELSE IF ~IsStr(date_string) THEN Raise("TypeError")
    ELSE CHOOSE r \in { IF dt.ok THEN Str(Strftime(dt)) ELSE date_string :
                          dt \in {Strptime(date_string.s)} } : TRUE
parse_date(date_string) == CHOOSE r \in { parse_date_val(x) : x \in {date_string} } : TRUE

\* ------------------------------------------------------------ parse_criteria
InclusionLabel == <<"I","n","c","l","u","s","i","o","n">>
ExclusionLabel == <<"E","x","c","l","u","s","i","o","n">>
CriteriaColon == <<"C","r","i","t","e","r","i","a",":">>

\* The scan of parse_criteria from line i on: the collected lines.
RECURSIVE ScanCriteria(_, _, _, _)
\* Faulty variant of ScanLine: blank lines are collected too.
ScanLineKeepBlank(lines, i, label, in_target_section, line) ==
    IF Contains(line, label \o <<" ">> \o CriteriaColon)
    THEN ScanCriteria(lines, i + 1, label, TRUE)
    ELSE IF Contains(line, CriteriaColon) /\ ~Contains(line, label)
    THEN ScanCriteria(lines, i + 1, label, FALSE)
    ELSE IF in_target_section
    THEN <<Strip(line)>> \o ScanCriteria(lines, i + 1, label, in_target_section)
    ELSE ScanCriteria(lines, i + 1, label, in_target_section)

ScanLine(lines, i, label, in_target_section, line) ==
    IF Contains(line, label \o <<" ">> \o CriteriaColon)
    THEN ScanCriteria(lines, i + 1, label, TRUE)
    ELSE IF Contains(line, CriteriaColon) /\ ~Contains(line, label)
    THEN ScanCriteria(lines, i + 1, label, FALSE)
    ELSE IF in_target_section /\ Strip(line) # << >>
    THEN <<Strip(line)>> \o ScanCriteria(lines, i + 1, label, in_target_section)
    ELSE ScanCriteria(lines, i + 1, label, in_target_section)
ScanCriteria(lines, i, label, in_target_section) ==
    IF i > Len(lines) THEN << >>
    ELSE CHOOSE r \in { ScanLine(lines, i, label, in_target_section, line) : line \in {lines[i]} } : TRUE

\* parse_criteria(criteria_text, criteria_type): None for a falsy text or an
\* empty collection; .split raises AttributeError on a truthy non-string.
parse_criteria_val(criteria_text, criteria_type) ==
    IF IsRaise(criteria_text) THEN criteria_text
    ELSE IF ~Truthy(criteria_text) THEN None
    ELSE IF ~IsStr(criteria_text) THEN Raise("AttributeError")
    ELSE CHOOSE r \in { IF section = << >> THEN None ELSE Str(JoinLines(section)) :
                          section \in { ScanCriteria(lines, 1, criteria_type, FALSE) :
                                          lines \in {SplitLines(criteria_text.s)} } } : TRUE
parse_criteria(criteria_text, criteria_type) ==
    CHOOSE r \in { parse_criteria_val(x, criteria_type) : x \in {criteria_text} } : TRUE

\* --------------------------------------------------- structure_clinical_trial
\* The first exception among the outcomes of a sequence of expressions
\* evaluated left to right.
HasRaise(outs) == \E i \in 1..Len(outs) : IsRaise(outs[i])
FirstRaise(outs) ==
    outs[CHOOSE i \in 1..Len(outs) : IsRaise(outs[i]) /\ \A j \in 1..(i - 1) : ~IsRaise(outs[j])]

\* A dict display {k1: e1, k2: e2, ...} given as the sequence of <<key, outcome>>
\* pairs in source order: the first exception, or the dict (a later pair wins).
DictOfVal(pairs) ==
    LET outs == [i \in 1..Len(pairs) |-> pairs[i][2]]
    IN IF HasRaise(outs) THEN FirstRaise(outs)
       ELSE Dict([k \in { pairs[i][1] : i \in 1..Len(pairs) } |->
                    pairs[CHOOSE i \in 1..Len(pairs) :
                            /\ pairs[i][1] = k
                            /\ \A j \in (i + 1)..Len(pairs) : pairs[j][1] # k][2]])
DictOf(display) == CHOOSE r \in { DictOfVal(pairs) : pairs \in {display} } : TRUE

\* [Body(x) for x in source]: a list is mapped element by element; a str or a
\* dict iterates over strings, on which every Body used here raises
\* AttributeError (it starts with x.get); anything else is not iterable.
ForEachVal(source, Body(_)) ==
    IF IsRaise(source) THEN source
    ELSE IF IsList(source)
    THEN CHOOSE r \in { IF HasRaise(ys) THEN FirstRaise(ys) ELSE List(ys) :
                          ys \in { [i \in 1..Len(source.xs) |-> Body(source.xs[i])] } } : TRUE
    ELSE IF IsStr(source) \/ IsDict(source)
    THEN (IF Truthy(source) THEN Raise("AttributeError") ELSE List(<< >>))
    ELSE Raise("TypeError")
ForEach(source, Body(_)) == CHOOSE r \in { ForEachVal(x, Body) : x \in {source} } : TRUE

InterventionEntry(intervention) ==
    DictOf(<< <<"type", Get(intervention, "type", None)>>,
              <<"name", Get(intervention, "name", None)>>,
              <<"description", Get(intervention, "description", None)>> >>)

OutcomeMeasure(outcome) == Get(outcome, "measure", None)

PublicationEntry(reference) ==
    DictOf(<< <<"title", Get(reference, "title", None)>>,
              <<"citation", Get(reference, "citation", None)>>,
              <<"pmid", Get(reference, "pmid", None)>> >>)

\* Faulty variant of LocationEntry: the facility is copied as it is, a nested
\* mapping included.
LocationEntryFlat(location) ==
    DictOf(<< <<"facility", Get(location, "facility", None)>>,
              <<"city", Get(location, "city", None)>>,
              <<"country", Get(location, "country", None)>> >>)

\* One entry of the locations list, for a location that is a dict.
LocationEntry(location) ==
    DictOf(<< <<"facility", IF IsDict(Get(location, "facility", None))
                            THEN Get(Get(location, "facility", EmptyDict), "name", None)
                            ELSE Get(location, "facility", None)>>,
              <<"city", Get(location, "city", None)>>,
              <<"country", Get(location, "country", None)>> >>)

\* The dict display assigned to structured_data, "locations" still [].
StructuredDisplay(protocol_section, derived_section) ==
    LET eligibility_module == Get(protocol_section, "eligibilityModule", EmptyDict)
        identification == Get(protocol_section, "identificationModule", EmptyDict)
        description == Get(protocol_section, "descriptionModule", EmptyDict)
        status == Get(protocol_section, "statusModule", EmptyDict)
        outcomes == Get(protocol_section, "outcomesModule", EmptyDict)
        lead == Get(Get(protocol_section, "sponsorCollaboratorsModule", EmptyDict), "leadSponsor", EmptyDict)
    IN DictOf(<<
        <<"nct_id", Get(identification, "nctId", None)>>,
        <<"title", Get(identification, "officialTitle", None)>>,
        <<"brief_summary", clean_html(Get(description, "briefSummary", EmptyStr))>>,
        <<"detailed_description", clean_html(Get(description, "detailedDescription", EmptyStr))>>,
        <<"status", Get(status, "overallStatus", None)>>,
        <<"start_date", parse_date(Get(Get(status, "startDateStruct", EmptyDict), "date", None))>>,
        <<"end_date", parse_date(Get(Get(status, "completionDateStruct", EmptyDict), "date", None))>>,
        <<"eligibility", DictOf(<<
            <<"criteria", clean_html(Get(eligibility_module, "eligibilityCriteria", EmptyStr))>>,
            <<"healthy_volunteers", Get(eligibility_module, "healthyVolunteers", None)>>,
            <<"sex", Get(eligibility_module, "sex", None)>>,
            <<"gender_based", Get(eligibility_module, "genderBased", None)>>,
            <<"minimum_age", Get(eligibility_module, "minimumAge", None)>>,
            <<"maximum_age", Get(eligibility_module, "maximumAge", None)>> >>)>>,
        <<"inclusion_criteria", parse_criteria(Get(eligibility_module, "eligibilityCriteria", EmptyStr), InclusionLabel)>>,
        <<"exclusion_criteria", parse_criteria(Get(eligibility_module, "eligibilityCriteria", EmptyStr), ExclusionLabel)>>,
        <<"healthy_volunteers_eligible", Get(eligibility_module, "healthyVolunteers", None)>>,
        <<"sex_eligible", Get(eligibility_module, "sex", None)>>,
        <<"minimum_age", Get(eligibility_module, "minimumAge", None)>>,
        <<"maximum_age", Get(eligibility_module, "maximumAge", None)>>,
        <<"interventions", ForEach(Get(Get(protocol_section, "armsInterventionsModule", EmptyDict), "interventions", List(<< >>)), InterventionEntry)>>,
        <<"outcomes", DictOf(<<
            <<"primary", ForEach(Get(outcomes, "primaryOutcomes", List(<< >>)), OutcomeMeasure)>>,
            <<"secondary", ForEach(Get(outcomes, "secondaryOutcomes", List(<< >>)), OutcomeMeasure)>> >>)>>,
        <<"sponsor", DictOf(<<
            <<"name", Get(lead, "name", None)>>,
            <<"type", Get(lead, "class", None)>> >>)>>,
        <<"locations", List(<< >>)>>,
        <<"publications", ForEach(Get(Get(derived_section, "publicationModule", EmptyDict), "references", List(<< >>)), PublicationEntry)>>
       >>)

\* Faulty variant of StructuredLocations: a mapping without a facility is
\* skipped too.
HasFacilityKey(location) == IsDict(location) /\ "facility" \in DOMAIN location.m
StructuredLocationsWithFacility(protocol_section, initial) ==
    LET locations == Get(Get(protocol_section, "contactsLocationsModule", EmptyDict), "locations", List(<< >>))
    IN IF IsRaise(locations) THEN locations
       ELSE IF IsList(locations) THEN ForEach(List(SelectSeq(locations.xs, HasFacilityKey)), LocationEntry)
       ELSE IF IsStr(locations)
       THEN List(<< Dict("facility" :> locations @@ "city" :> None @@ "country" :> None) >>)
       ELSE initial

\* The value stored under "locations" after the display, given the one the
\* display put there.
StructuredLocations(protocol_section, initial) ==
    LET locations == Get(Get(protocol_section, "contactsLocationsModule", EmptyDict), "locations", List(<< >>))
    IN IF IsRaise(locations) THEN locations
       ELSE IF IsList(locations) THEN ForEach(List(SelectSeq(locations.xs, IsDict)), LocationEntry)
       ELSE IF IsStr(locations)
       THEN List(<< Dict("facility" :> locations @@ "city" :> None @@ "country" :> None) >>)
       ELSE initial

\* Faulty variant of IsMalformed: the sections are read without the {} default, so a
\* missing section is rejected like a non-mapping one.
IsMalformedNoDefault(study) ==
    \/ ~IsDict(study)
    \/ ~IsDict(Get(study, "protocolSection", None))
    \/ ~IsDict(Get(study, "derivedSection", None))

\* Faulty variant of IsMalformed: the derived section is not checked.
IsMalformedProtocolOnly(study) ==
    \/ ~IsDict(study)
    \/ ~IsDict(Get(study, "protocolSection", EmptyDict))

\* The two isinstance checks that make structure_clinical_trial return None.
IsMalformed(study) ==
    \/ ~IsDict(study)
    \/ ~IsDict(Get(study, "protocolSection", EmptyDict))
    \/ ~IsDict(Get(study, "derivedSection", EmptyDict))

\* structure_clinical_trial(study): None, the structured dict, or the exception
\* that escapes.
structure_clinical_trial(study) ==
    IF IsMalformed(study) THEN None
    ELSE LET protocol_section == Get(study, "protocolSection", EmptyDict)
             structured_data == StructuredDisplay(protocol_section, Get(study, "derivedSection", EmptyDict))
         IN IF IsRaise(structured_data) THEN structured_data
            ELSE LET locations == StructuredLocations(protocol_section, structured_data.m["locations"])
                 IN IF IsRaise(locations) THEN locations
                    ELSE Dict(MapSet(structured_data.m, "locations", locations))

\* Faulty variant of StudyAfterCall: the protocol section is taken out of the
\* candidate (study.pop in place of study.get).
StudyAfterCallPop(study) ==
    IF IsDict(study) /\ "protocolSection" \in DOMAIN study.m
    THEN Dict([k \in (DOMAIN study.m) \ {"protocolSection"} |-> study.m[k]])
    ELSE study

\* The candidate object after structure_clinical_trial(study): the function
\* only reads it (isinstance and .get) and keeps no state of its own.
StudyAfterCall(study) == study

\* ------------------------------------------------------------ structure_data
IsNotNone(v) == v # None

\* Faulty variant of structure_data: the records come out last first.
structure_data_reversed(studies) ==
    LET kept == SelectSeq(studies, IsNotNone)
    IN ForEach(List([i \in 1..Len(kept) |-> kept[Len(kept) + 1 - i]]), structure_clinical_trial)

\* APIHandler.structure_data(studies):
\* [structure_clinical_trial(study) for study in studies if study is not None]
structure_data(studies) ==
    ForEach(List(SelectSeq(studies, IsNotNone)), structure_clinical_trial)

\* ------------------------------------------- consumers of structured records
\* v[key]: the value, KeyError on a dict without the key, TypeError on a value
\* that a string cannot index.
ItemVal(v, key) ==
    IF IsRaise(v) THEN v
    ELSE IF IsDict(v) THEN (IF key \in DOMAIN v.m THEN v.m[key] ELSE Raise("KeyError"))
    ELSE Raise("TypeError")
Item(v, key) == CHOOSE r \in { ItemVal(x, key) : x \in {v} } : TRUE

\* [i['name'] for i in source]
NamesOfVal(source) ==
    IF IsRaise(source) THEN source
    ELSE IF IsList(source)
    THEN CHOOSE r \in { IF HasRaise(ys) THEN FirstRaise(ys) ELSE List(ys) :
                          ys \in { [i \in 1..Len(source.xs) |-> Item(source.xs[i], "name")] } } : TRUE
    ELSE IF IsStr(source) \/ IsDict(source)
    THEN (IF Truthy(source) THEN Raise("TypeError") ELSE List(<< >>))
    ELSE Raise("TypeError")
NamesOf(source) == CHOOSE r \in { NamesOfVal(x) : x \in {source} } : TRUE

\* ', '.join(xs) for a sequence of str values.
RECURSIVE JoinCommaSpace(_)
JoinCommaSpaceVal(xs) ==
    IF Len(xs) = 0 THEN << >>
    ELSE IF Len(xs) = 1 THEN xs[1].s
    ELSE xs[1].s \o <<",", " ">> \o JoinCommaSpace(Tail(xs))
JoinCommaSpace(pieces) == CHOOSE r \in { JoinCommaSpaceVal(xs) : xs \in {pieces} } : TRUE

\* ', '.join(v) for a list v (the records hold lists at the places the
\* formatters join): TypeError when an element is not a string.
JoinedVal(v) ==
    IF IsRaise(v) THEN v
    ELSE IF IsList(v) /\ \A i \in 1..Len(v.xs) : IsStr(v.xs[i]) THEN Str(JoinCommaSpace(v.xs))
    ELSE Raise("TypeError")
Joined(v) == CHOOSE r \in { JoinedVal(x) : x \in {v} } : TRUE

\* An f-string given as the outcomes of its replacement fields in source order:
\* the first exception, or the text, kept as the values that fill its fields.
Formatted(fields) ==
    CHOOSE r \in { IF HasRaise(outs) THEN FirstRaise(outs) ELSE [t |-> "text", fields |-> outs] :
                     outs \in {fields} } : TRUE

\* ProtocolGenerator._format_study_details(study)
format_study_details(study) ==
    Formatted(<< Item(study, "nct_id"),
                 Item(study, "title"),
                 Item(study, "study_design"),
                 Item(Item(study, "eligibility"), "criteria"),
                 Joined(NamesOf(Item(study, "interventions"))),
                 Joined(Item(Item(study, "outcomes"), "primary")),
                 Joined(Item(Item(study, "outcomes"), "secondary")),
                 Item(study, "start_date"),
                 Item(study, "end_date") >>)

\* ResultAnalyzer._format_study_summary(study)
format_study_summary(study) ==
    Formatted(<< Item(study, "nct_id"),
                 Item(study, "title"),
                 Item(study, "status"),
                 Item(study, "start_date"),
                 Item(study, "end_date"),
                 Joined(NamesOf(Item(study, "interventions"))),
                 Joined(Item(Item(study, "outcomes"), "primary")),
                 Joined(Item(Item(study, "outcomes"), "secondary")) >>)

\* --------------------------------------------------------- raw candidates
\* A path into a value: a sequence of steps, each a dict key or a list index.
KeyStep(k) == [kind |-> "key", key |-> k, idx |-> 0]
IdxStep(i) == [kind |-> "idx", key |-> "", idx |-> i]

RECURSIVE PathsOf(_)
PathsOf(v) ==
    {<< >>} \cup
    (IF IsDict(v)
     THEN UNION { { <<KeyStep(k)>> \o p : p \in PathsOf(v.m[k]) } : k \in DOMAIN v.m }
     ELSE IF IsList(v)
     THEN UNION { { <<IdxStep(i)>> \o p : p \in PathsOf(v.xs[i]) } : i \in 1..Len(v.xs) }
     ELSE {})

\* v with the value at path replaced by new.
RECURSIVE ReplaceAt(_, _, _)
ReplaceAt(v, path, new) ==
    IF path = << >> THEN new
    ELSE IF Head(path).kind = "key"
    THEN Dict([v.m EXCEPT ![Head(path).key] = ReplaceAt(@, Tail(path), new)])
    ELSE List([v.xs EXCEPT ![Head(path).idx] = ReplaceAt(@, Tail(path), new)])

\* v without the key (or list element) the non-empty path leads to.
RECURSIVE DeleteAt(_, _)
DeleteAt(v, path) ==
    IF Len(path) = 1
    THEN IF Head(path).kind = "key"
         THEN Dict([k \in (DOMAIN v.m) \ {Head(path).key} |-> v.m[k]])
         ELSE List(SubSeq(v.xs, 1, Head(path).idx - 1) \o SubSeq(v.xs, Head(path).idx + 1, Len(v.xs)))
    ELSE IF Head(path).kind = "key"
    THEN Dict([v.m EXCEPT ![Head(path).key] = DeleteAt(@, Tail(path))])
    ELSE List([v.xs EXCEPT ![Head(path).idx] = DeleteAt(@, Tail(path))])

January5 == <<"J","a","n","u","a","r","y"," ","5",","," ","2","0","2","1">>
CriteriaText ==
    InclusionLabel \o <<" ">> \o CriteriaColon \o <<"\n","A","\n","B","\n">> \o
    ExclusionLabel \o <<" ">> \o CriteriaColon \o <<"\n","C">>

\* A fully populated record of the registry.
FullStudy ==
    Dict("protocolSection" :> Dict(
            "identificationModule" :> Dict("nctId" :> Str(<<"N","1">>) @@ "officialTitle" :> Str(<<"T">>)) @@
            "descriptionModule" :> Dict("briefSummary" :> Str(<<"a","<","b",">","c">>) @@
                                        "detailedDescription" :> Str(<<"d">>)) @@
            "statusModule" :> Dict("overallStatus" :> Str(<<"R">>) @@
                                   "startDateStruct" :> Dict("date" :> Str(January5)) @@
                                   "completionDateStruct" :> Dict("date" :> Str(<<"2","0","2","2","-","0","3">>))) @@
            "eligibilityModule" :> Dict("eligibilityCriteria" :> Str(CriteriaText) @@
                                        "healthyVolunteers" :> Bool(FALSE) @@
                                        "sex" :> Str(<<"A","L","L">>) @@
                                        "genderBased" :> Bool(FALSE) @@
                                        "minimumAge" :> Str(<<"1","8">>) @@
                                        "maximumAge" :> Str(<<"6","5">>)) @@
            "armsInterventionsModule" :> Dict("interventions" :> List(<<
                Dict("type" :> Str(<<"D">>) @@ "name" :> Str(<<"n">>) @@ "description" :> Str(<<"e">>)) >>)) @@
            "outcomesModule" :> Dict("primaryOutcomes" :> List(<< Dict("measure" :> Str(<<"p">>)) >>) @@
                                     "secondaryOutcomes" :> List(<< Dict("measure" :> Str(<<"s">>)) >>)) @@
            "sponsorCollaboratorsModule" :> Dict("leadSponsor" :> Dict("name" :> Str(<<"S">>) @@ "class" :> Str(<<"I">>))) @@
            "contactsLocationsModule" :> Dict("locations" :> List(<<
                Dict("facility" :> Str(<<"F">>) @@ "city" :> Str(<<"c">>) @@ "country" :> Str(<<"u">>)),
                Dict("facility" :> Dict("name" :> Str(<<"G">>)) @@ "city" :> Str(<<"k">>)) >>))) @@
         "derivedSection" :> Dict(
            "publicationModule" :> Dict("references" :> List(<<
                Dict("title" :> Str(<<"t">>) @@ "citation" :> Str(<<"z">>) @@ "pmid" :> Str(<<"9">>)) >>))))

\* Sparse records: no section, empty sections, empty modules.
SectionsOnly == Dict("protocolSection" :> EmptyDict @@ "derivedSection" :> EmptyDict)
ModulesOnly ==
    Dict("protocolSection" :> Dict(
            "identificationModule" :> EmptyDict @@ "descriptionModule" :> EmptyDict @@
            "statusModule" :> Dict("startDateStruct" :> EmptyDict) @@ "eligibilityModule" :> EmptyDict @@
            "armsInterventionsModule" :> EmptyDict @@ "outcomesModule" :> EmptyDict @@
            "sponsorCollaboratorsModule" :> Dict("leadSponsor" :> EmptyDict) @@
            "contactsLocationsModule" :> EmptyDict) @@
         "derivedSection" :> Dict("publicationModule" :> EmptyDict))

BaseStudies == { FullStudy, SectionsOnly, ModulesOnly, EmptyDict }

\* Values of an unexpected type that may stand where another was expected.
Replacements ==
    { None, EmptyStr, Str(<<"x">>), PyInt(0), PyInt(7), List(<< >>), List(<<Str(<<"x">>)>>), EmptyDict }

\* ---------------------------------------------------------------- upstream
\* Marker of a key that the JSON object does not contain (not a Python value).
Absent == [t |-> "absent"]

\* Raw study candidates the registry may send.
StudyA == Dict("protocolSection" :> Dict("identificationModule" :> Dict("nctId" :> Str(<<"A">>))))
StudyB == Dict("protocolSection" :> Dict("identificationModule" :> Dict("nctId" :> Str(<<"B">>))))
NotAStudy == Str(<<"x">>)

\* Values of the 'studies' key.
Pages == { List(<<StudyA, StudyB>>), List(<<NotAStudy, StudyB>>) }
\* Values of the 'totalCount' key.
Totals == { PyInt(1), PyInt(2) }
\* Values of the 'nextPageToken' key.
Tokens == { Str(<<"T">>), Str(<<"U">>) }

MkData(p, c, k) ==
    (IF p = Absent THEN EmptyMap ELSE "studies" :> p) @@
    (IF c = Absent THEN EmptyMap ELSE "totalCount" :> c) @@
    (IF k = Absent THEN EmptyMap ELSE "nextPageToken" :> k)

\* A response: status_code, text (body) and data, the object response.json()
\* decodes the body to.
OkResponses ==
    { [status_code |-> 200, text |-> "json", data |-> MkData(p, c, k)] :
        p \in Pages \cup {Absent}, c \in Totals \cup {Absent}, k \in Tokens \cup {Absent} }
ErrorResponses ==
    { [status_code |-> 500, text |-> "Internal Server Error", data |-> EmptyMap],
      [status_code |-> 404, text |-> "Not Found", data |-> MkData(List(<<StudyA>>), PyInt(1), Absent)] }
Responses == OkResponses \cup ErrorResponses

\* Filter mappings a caller passes to fetch_and_structure_studies.
QueryParams ==
    { "query.cond" :> Str(<<"d","m">>) @@ "filter.overallStatus" :> Str(<<"R">>),
      "filter.overallStatus" :> List(<<Str(<<"R">>), Str(<<"C">>)>>) @@ "pageSize" :> PyInt(2) @@
          "pageToken" :> Str(<<"Z">>) @@ "format" :> Str(<<"c","s","v">>) @@
          "countTotal" :> Str(<<"f","a","l","s","e">>) }

\* -------------------------------------------------------------------- state
VARIABLES
    pc,            \* position of the call: "start", "request", "response", "done", "raised" ("off": no call)
    query_params,  \* the caller's mapping given to fetch_and_structure_studies
    params,        \* the request-parameter mapping fetch_studies works on
    all_studies,   \* fetch_studies: records accumulated so far (sequence)
    total_count,   \* fetch_studies: last reported total
    response,      \* the response of the latest requests.get
    requests,      \* history: the params sent with each requests.get, in order
    responses,     \* history: the responses received, in order
    fetched,       \* outcome of fetch_studies: Absent while running, a return or a raise
    result,        \* outcome of fetch_and_structure_studies, likewise
    candidate,     \* the raw candidate handed to structure_clinical_trial
    edits,         \* number of edits applied to the base candidate
    extracted,     \* outcome of structure_clinical_trial(candidate): Absent before the call
    heap,          \* the mapping objects of a session: 0 is the caller's, i the one invocation i builds
    inv,           \* the invocations of a session: position, params object, logs, outcome
    upstream,      \* the registry of a session: the number of pages it serves, 0 when none
    op,            \* the function under test, "" when none
    args,          \* its argument
    outs,          \* the outcomes of its successive applications, in order
    session_state, \* st.session_state: the mapping of a browser session
    state_log,     \* history: the operations on session_state, each with the mapping before and after
    given          \* what the caller built the argument from (the argument itself, or its parts)

pvars == <<pc, query_params, params, all_studies, total_count, response, requests, responses, fetched, result>>
evars == <<candidate, edits, extracted>>
svars == <<heap, inv, upstream>>
fvars == <<op, args, outs>>
uvars == <<session_state, state_log>>
vars == <<pc, query_params, params, all_studies, total_count, response, requests, responses, fetched, result,
          candidate, edits, extracted, heap, inv, upstream, op, args, outs, session_state, state_log, given>>

\* Faulty variant of DefaultParams: no response format among the defaults.
DefaultParamsNoFormat == "pageSize" :> PyInt(100) @@ "countTotal" :> Str(<<"t","r","u","e">>)

\* Defaults of fetch_and_structure_studies.
DefaultParams == "format" :> Str(<<"j","s","o","n">>) @@ "pageSize" :> PyInt(100) @@ "countTotal" :> Str(<<"t","r","u","e">>)

\* The prologue of fetch_studies: a list under filter.overallStatus becomes
\* its comma-joined string.
NormaliseStatus(p) ==
    IF "filter.overallStatus" \in DOMAIN p /\ IsList(p["filter.overallStatus"])
    THEN MapSet(p, "filter.overallStatus", Str(JoinComma(p["filter.overallStatus"].xs)))
    ELSE p

\* raise Exception(f"API Error: {response.status_code}\n{response.text}")
ApiError(r) == [t |-> "raise", kind |-> "Exception", status_code |-> r.status_code, text |-> r.text]

\* return <studies>, total_count
Return(studies, tc) == [t |-> "return", studies |-> studies, total_count |-> tc]

\* Faulty variant of StudiesAfter: the page replaces the accumulation.
StudiesAfterOverwrite(acc, data) ==
    IF "studies" \in DOMAIN data THEN data["studies"].xs ELSE acc

\* Faulty variant of TotalAfter: only the first reported total is kept.
TotalAfterFirstSeen(tc, data) ==
    IF "totalCount" \in DOMAIN data /\ tc = PyInt(0) THEN data["totalCount"] ELSE tc

\* Faulty variant of TotalAfter: a page without totalCount resets the total
\* (data.get('totalCount', 0)).
TotalAfterResetOnMissing(tc, data) ==
    IF "totalCount" \in DOMAIN data THEN data["totalCount"] ELSE PyInt(0)

\* The accumulation of one decoded page.
StudiesAfter(acc, data) ==
    IF "studies" \in DOMAIN data THEN acc \o data["studies"].xs ELSE acc
TotalAfter(tc, data) ==
    IF "totalCount" \in DOMAIN data THEN data["totalCount"] ELSE tc

\* Faulty variant of HasNextPage: a page without records ends the loop.
HasNextPageWithStudies(data) == "nextPageToken" \in DOMAIN data /\ "studies" \in DOMAIN data

\* Faulty variant of HasNextPage: the value decides, not the key
\* (`if data.get('nextPageToken')`).
HasNextPageTruthy(data) == "nextPageToken" \in DOMAIN data /\ Truthy(data["nextPageToken"])

\* `if 'nextPageToken' in data`: the loop goes on.
HasNextPage(data) == "nextPageToken" \in DOMAIN data

\* Faulty variant of ParamsAfter: a pageToken already in params is kept.
ParamsAfterKeepFirst(p, data) ==
    IF "pageToken" \in DOMAIN p THEN p ELSE MapSet(p, "pageToken", data["nextPageToken"])

\* params['pageToken'] = data['nextPageToken']
ParamsAfter(p, data) == MapSet(p, "pageToken", data["nextPageToken"])

\* Faulty variant of FacadeResult: the number of records is returned as the
\* total.
FacadeResultCountsRecords(studies, tc) ==
    CHOOSE r \in { IF IsRaise(structured_studies) THEN structured_studies
                   ELSE Return(structured_studies.xs, PyInt(Len(structured_studies.xs))) :
                   structured_studies \in {structure_data(studies)} } : TRUE

\* The rest of fetch_and_structure_studies once fetch_studies has returned.
FacadeResult(studies, tc) ==
    CHOOSE r \in { IF IsRaise(structured_studies) THEN structured_studies
                   ELSE Return(structured_studies.xs, tc) :
                   structured_studies \in {structure_data(studies)} } : TRUE

PipelineIdle ==
    /\ pc = "off"
    /\ query_params = EmptyMap
    /\ params = EmptyMap
    /\ all_studies = << >>
    /\ total_count = PyInt(0)
    /\ response = Absent
    /\ requests = << >>
    /\ responses = << >>
    /\ fetched = Absent
    /\ result = Absent

ExtractorIdle ==
    /\ candidate = None
    /\ edits = 0
    /\ extracted = Absent

SessionIdle ==
    /\ heap = EmptyMap
    /\ inv = << >>
    /\ upstream = 0

FunctionIdle ==
    /\ op = ""
    /\ args = None
    /\ outs = << >>

StateIdle ==
    /\ session_state = EmptyMap
    /\ state_log = << >>

\* ------------------------------------------------- the fetch pipeline (Spec)
Init ==
    /\ pc = "start"
    /\ query_params \in QueryParams
    /\ params = EmptyMap
    /\ all_studies = << >>
    /\ total_count = PyInt(0)
    /\ response = Absent
    /\ requests = << >>
    /\ responses = << >>
    /\ fetched = Absent
    /\ result = Absent
    /\ ExtractorIdle
    /\ SessionIdle
    /\ FunctionIdle
    /\ StateIdle
    /\ given = None

\* fetch_and_structure_studies up to the first requests.get of fetch_studies.
Call ==
    /\ pc = "start"
    /\ params' = NormaliseStatus(MapUpdate(DefaultParams, query_params))
    /\ all_studies' = << >>
    /\ total_count' = PyInt(0)
    /\ pc' = "request"
    /\ UNCHANGED <<query_params, response, requests, responses, fetched, result>>
    /\ UNCHANGED evars
    /\ UNCHANGED <<svars, fvars, uvars, given>>

\* response = requests.get(self.api_url, params=params)
Request ==
    /\ pc = "request"
    /\ Len(requests) < MaxRequests
    /\ \E r \in Responses :
        /\ response' = r
        /\ responses' = Append(responses, r)
    /\ requests' = Append(requests, params)
    /\ pc' = "response"
    /\ UNCHANGED <<query_params, params, all_studies, total_count, fetched, result>>
    /\ UNCHANGED evars
    /\ UNCHANGED <<svars, fvars, uvars, given>>

\* Faulty variant of RaiseOnStatus: `break` in place of `raise`, so what was
\* accumulated is returned.
BreakOnStatus ==
    /\ pc = "response"
    /\ response.status_code # 200
    /\ fetched' = Return(all_studies, total_count)
    /\ result' = FacadeResult(all_studies, total_count)
    /\ pc' = "done"
    /\ UNCHANGED <<query_params, params, all_studies, total_count, response, requests, responses>>
    /\ UNCHANGED evars
    /\ UNCHANGED <<svars, fvars, uvars, given>>

\* if response.status_code != 200: raise; the exception leaves fetch_studies
\* and fetch_and_structure_studies.
RaiseOnStatus ==
    /\ pc = "response"
    /\ response.status_code # 200
    /\ fetched' = ApiError(response)
    /\ result' = ApiError(response)
    /\ pc' = "raised"
    /\ UNCHANGED <<query_params, params, all_studies, total_count, response, requests, responses>>
    /\ UNCHANGED evars
    /\ UNCHANGED <<svars, fvars, uvars, given>>

\* A 200 response with a nextPageToken: accumulate and loop.
NextPage ==
    /\ pc = "response"
    /\ response.status_code = 200
    /\ HasNextPage(response.data)
    /\ all_studies' = StudiesAfter(all_studies, response.data)
    /\ total_count' = TotalAfter(total_count, response.data)
    /\ params' = ParamsAfter(params, response.data)
    /\ pc' = "request"
    /\ UNCHANGED <<query_params, response, requests, responses, fetched, result>>
    /\ UNCHANGED evars
    /\ UNCHANGED <<svars, fvars, uvars, given>>

\* A 200 response without a nextPageToken: accumulate, break, return from
\* fetch_studies, structure the records and return from the facade.
LastPage ==
    /\ pc = "response"
    /\ response.status_code = 200
    /\ ~HasNextPage(response.data)
    /\ \E studies \in {StudiesAfter(all_studies, response.data)},
          tc \in {TotalAfter(total_count, response.data)} :
        \E outcome \in {FacadeResult(studies, tc)} :
            /\ all_studies' = studies
            /\ total_count' = tc
            /\ fetched' = Return(studies, tc)
            /\ result' = outcome
            /\ pc' = IF IsRaise(outcome) THEN "raised" ELSE "done"
    /\ UNCHANGED <<query_params, params, response, requests, responses>>
    /\ UNCHANGED evars
    /\ UNCHANGED <<svars, fvars, uvars, given>>

Next == Call \/ Request \/ RaiseOnStatus \/ NextPage \/ LastPage

Spec == Init /\ [][Next]_vars

\* ------------------- a registry with unusual continuation tokens (TokenSpec)
\* Values a registry may put under 'nextPageToken': a string, the empty string,
\* null and a number.
OddTokens == { Str(<<"T">>), EmptyStr, None, PyInt(0) }
TokenResponses ==
    { [status_code |-> 200, text |-> "json", data |-> MkData(List(<<StudyA>>), PyInt(1), k)] :
        k \in OddTokens \cup {Absent} }
    \cup { [status_code |-> 500, text |-> "Internal Server Error", data |-> EmptyMap] }

\* response = requests.get(self.api_url, params=params), answered by this
\* registry.
RequestOddToken ==
    /\ pc = "request"
    /\ Len(requests) < MaxRequests
    /\ \E r \in TokenResponses :
        /\ response' = r
        /\ responses' = Append(responses, r)
    /\ requests' = Append(requests, params)
    /\ pc' = "response"
    /\ UNCHANGED <<query_params, params, all_studies, total_count, fetched, result>>
    /\ UNCHANGED evars
    /\ UNCHANGED <<svars, fvars, uvars, given>>

TokenNext == Call \/ RequestOddToken \/ RaiseOnStatus \/ NextPage \/ LastPage

TokenSpec == Init /\ [][TokenNext]_vars

\* --------------------------- the inline fetch_studies of app.py (AppSpec)
\* The request parameters app.py builds from the decoded query: the defaults,
\* then every entry of the query, a list as its comma-joined string.
AppDefaultParams ==
    "format" :> Str(<<"j","s","o","n">>) @@ "pageSize" :> PyInt(100) @@ "countTotal" :> Str(<<"t","r","u","e">>)
AppParams(query) ==
    MapUpdate(AppDefaultParams,
              [k \in DOMAIN query |-> IF IsList(query[k]) THEN Str(JoinComma(query[k].xs)) ELSE query[k]])

\* The responses of the registry to the app: pages with or without records,
\* total and token, and the error responses.
AppResponses ==
    { [status_code |-> 200, text |-> "json", data |-> MkData(p, c, k)] :
        p \in { List(<<StudyA, StudyB>>), Absent }, c \in Totals \cup {Absent}, k \in { Str(<<"T">>), Absent } }
    \cup ErrorResponses

\* The script has decoded the query the LLM produced.
AppInit ==
    /\ pc = "start"
    /\ query_params \in QueryParams
    /\ params = EmptyMap
    /\ all_studies = << >>
    /\ total_count = PyInt(0)
    /\ response = Absent
    /\ requests = << >>
    /\ responses = << >>
    /\ fetched = Absent
    /\ result = Absent
    /\ ExtractorIdle
    /\ SessionIdle
    /\ FunctionIdle
    /\ StateIdle
    /\ given = None

\* params is built and fetch_studies(params) is entered.
AppCall ==
    /\ pc = "start"
    /\ params' = AppParams(query_params)
    /\ all_studies' = << >>
    /\ total_count' = PyInt(0)
    /\ pc' = "request"
    /\ UNCHANGED <<query_params, response, requests, responses, fetched, result>>
    /\ UNCHANGED evars
    /\ UNCHANGED <<svars, fvars, uvars, given>>

\* response = requests.get(api_url, params=params)
AppRequest ==
    /\ pc = "request"
    /\ Len(requests) < MaxRequests
    /\ \E r \in AppResponses :
        /\ response' = r
        /\ responses' = Append(responses, r)
    /\ requests' = Append(requests, params)
    /\ pc' = "response"
    /\ UNCHANGED <<query_params, params, all_studies, total_count, fetched, result>>
    /\ UNCHANGED evars
    /\ UNCHANGED <<svars, fvars, uvars, given>>

\* Faulty variant of AppBreakOnStatus: the status is raised as an error, as
\* APIHandler does.
AppRaiseOnStatus ==
    /\ pc = "response"
    /\ response.status_code # 200
    /\ fetched' = ApiError(response)
    /\ result' = ApiError(response)
    /\ pc' = "raised"
    /\ UNCHANGED <<query_params, params, all_studies, total_count, response, requests, responses>>
    /\ UNCHANGED evars
    /\ UNCHANGED <<svars, fvars, uvars, given>>

\* if response.status_code != 200: st.error, st.write, break; then
\* `return all_studies, total_count`, which the caller binds to studies and
\* total_count.
AppBreakOnStatus ==
    /\ pc = "response"
    /\ response.status_code # 200
    /\ fetched' = Return(all_studies, total_count)
    /\ result' = Return(all_studies, total_count)
    /\ pc' = "done"
    /\ UNCHANGED <<query_params, params, all_studies, total_count, response, requests, responses>>
    /\ UNCHANGED evars
    /\ UNCHANGED <<svars, fvars, uvars, given>>

\* A 200 response with a nextPageToken: accumulate and loop.
AppNextPage ==
    /\ pc = "response"
    /\ response.status_code = 200
    /\ "nextPageToken" \in DOMAIN response.data
    /\ all_studies' = StudiesAfter(all_studies, response.data)
    /\ total_count' = TotalAfter(total_count, response.data)
    /\ params' = MapSet(params, "pageToken", response.data["nextPageToken"])
    /\ pc' = "request"
    /\ UNCHANGED <<query_params, response, requests, responses, fetched, result>>
    /\ UNCHANGED evars
    /\ UNCHANGED <<svars, fvars, uvars, given>>

\* A 200 response without a nextPageToken: accumulate, break and return.
AppLastPage ==
    /\ pc = "response"
    /\ response.status_code = 200
    /\ "nextPageToken" \notin DOMAIN response.data
    /\ \E studies \in {StudiesAfter(all_studies, response.data)},
          tc \in {TotalAfter(total_count, response.data)} :
        /\ all_studies' = studies
        /\ total_count' = tc
        /\ fetched' = Return(studies, tc)
        /\ result' = Return(studies, tc)
    /\ pc' = "done"
    /\ UNCHANGED <<query_params, params, response, requests, responses>>
    /\ UNCHANGED evars
    /\ UNCHANGED <<svars, fvars, uvars, given>>

AppNext == AppCall \/ AppRequest \/ AppBreakOnStatus \/ AppNextPage \/ AppLastPage

AppSpec == AppInit /\ [][AppNext]_vars

\* ------------------------------------------- the Field Extractor (ExtractSpec)
ExtractInit ==
    /\ PipelineIdle
    /\ candidate \in BaseStudies
    /\ edits = 0
    /\ extracted = Absent
    /\ SessionIdle
    /\ FunctionIdle
    /\ StateIdle
    /\ given = None

\* The registry sends a value of another type at some place of the record.
Retype ==
    /\ extracted = Absent
    /\ edits < MaxEdits
    /\ \E p \in PathsOf(candidate), w \in Replacements :
        candidate' = ReplaceAt(candidate, p, w)
    /\ edits' = edits + 1
    /\ UNCHANGED extracted
    /\ UNCHANGED pvars
    /\ UNCHANGED <<svars, fvars, uvars, given>>

\* The registry leaves a key (or a list element) out of the record.
DropKey ==
    /\ extracted = Absent
    /\ edits < MaxEdits
    /\ \E p \in PathsOf(candidate) \ {<< >>} :
        candidate' = DeleteAt(candidate, p)
    /\ edits' = edits + 1
    /\ UNCHANGED extracted
    /\ UNCHANGED pvars
    /\ UNCHANGED <<svars, fvars, uvars, given>>

\* structure_clinical_trial(candidate)
Extract ==
    /\ extracted = Absent
    /\ extracted' = structure_clinical_trial(candidate)
    /\ UNCHANGED <<candidate, edits>>
    /\ UNCHANGED pvars
    /\ UNCHANGED <<svars, fvars, uvars, given>>

ExtractNext == Retype \/ DropKey \/ Extract

ExtractSpec == ExtractInit /\ [][ExtractNext]_vars

\* ------------------------------- several calls on one handler (SessionSpec)
\* The registry of a session serves `upstream` pages, one record each, and
\* reports `upstream` as the total.  Its continuation tokens are opaque: the
\* token for page n issued in a response to invocation i.
RegistrySizes == { 1, 2, 3 }
PageStudy(n) ==
    Dict("protocolSection" :> Dict("identificationModule" :> Dict("nctId" :> Str(<<DigitChars[n + 1]>>))))
TokenOf(n, i) == Str(<<"t", DigitChars[n + 1], DigitChars[i + 1]>>)
PageOf(token) ==
    LET ns == { n \in 2..3 : \E i \in 0..MaxCalls : token = TokenOf(n, i) }
    IN IF ns = {} THEN 0 ELSE CHOOSE n \in ns : TRUE

\* The response of the registry to a request of invocation i with parameters p.
Serve(p, i) ==
    LET n == IF "pageToken" \in DOMAIN p THEN PageOf(p["pageToken"]) ELSE 1
    IN IF n = 0 \/ n > upstream
       THEN [status_code |-> 400, text |-> "Bad Request", data |-> EmptyMap]
       ELSE [status_code |-> 200, text |-> "json",
             data |-> MkData(List(<<PageStudy(n)>>), PyInt(upstream),
                             IF n < upstream THEN TokenOf(n + 1, i) ELSE Absent)]

\* The mapping objects a caller holds.
CallerMappings ==
    { "query.cond" :> Str(<<"d","m">>) @@ "filter.overallStatus" :> List(<<Str(<<"R">>), Str(<<"C">>)>>),
      "query.cond" :> Str(<<"d","m">>) @@ "pageToken" :> TokenOf(2, 0),
      "query.cond" :> Str(<<"d","m">>) @@ "pageToken" :> Str(<<"Z">>) }

\* An invocation that has not started.
NotStarted ==
    [pc |-> "idle", kind |-> "", ref |-> 0, sent |-> EmptyMap, requests |-> << >>, responses |-> << >>,
     all_studies |-> << >>, total_count |-> PyInt(0), outcome |-> Absent]

Running(i) == inv[i].pc \in {"request", "waiting"}

\* Faulty variant of ParamsRef: the facade works on the caller's mapping.
ParamsRefCaller(i) == 0

\* The mapping object the facade of invocation i hands to fetch_studies: the
\* dict display it builds, a new object on every call.
ParamsRef(i) == i

SessionInit ==
    /\ PipelineIdle
    /\ ExtractorIdle
    /\ FunctionIdle
    /\ StateIdle
    /\ \E m \in CallerMappings :
        /\ heap = [r \in 0..MaxCalls |-> IF r = 0 THEN m ELSE EmptyMap]
        /\ given = m
    /\ inv = [i \in 1..MaxCalls |-> NotStarted]
    /\ upstream \in RegistrySizes

\* fetch_and_structure_studies(query_params) with the caller's mapping, up to
\* the first requests.get: the new params object, then the prologue of
\* fetch_studies on it.  Invocations through the facade may interleave.
FacadeEnter(i) ==
    /\ inv[i].pc = "idle"
    /\ \A j \in 1..MaxCalls : inv[j].kind # "direct"
    /\ heap' = [heap EXCEPT ![ParamsRef(i)] = NormaliseStatus(MapUpdate(DefaultParams, heap[0]))]
    /\ inv' = [inv EXCEPT ![i].pc = "request", ![i].kind = "facade", ![i].ref = ParamsRef(i)]
    /\ UNCHANGED <<upstream, given>>
    /\ UNCHANGED <<pvars, evars, fvars, uvars>>

\* fetch_studies(params) with the caller's mapping itself, up to the first
\* requests.get; one call after the other.
DirectEnter(i) ==
    /\ inv[i].pc = "idle"
    /\ \A j \in 1..MaxCalls : inv[j].kind # "facade" /\ ~Running(j)
    /\ heap' = [heap EXCEPT ![0] = NormaliseStatus(heap[0])]
    /\ inv' = [inv EXCEPT ![i].pc = "request", ![i].kind = "direct", ![i].ref = 0]
    /\ UNCHANGED <<upstream, given>>
    /\ UNCHANGED <<pvars, evars, fvars, uvars>>

\* requests.get(self.api_url, params=params): the request leaves with what the
\* params object holds now.
SessionSend(i) ==
    /\ inv[i].pc = "request"
    /\ inv' = [inv EXCEPT ![i].pc = "waiting",
                          ![i].sent = heap[inv[i].ref],
                          ![i].requests = Append(@, heap[inv[i].ref])]
    /\ UNCHANGED <<heap, upstream, given>>
    /\ UNCHANGED <<pvars, evars, fvars, uvars>>

\* The outcome of an invocation that leaves the loop with studies and tc.
SessionOutcome(kind, studies, tc) ==
    IF kind = "facade" THEN FacadeResult(studies, tc) ELSE Return(studies, tc)

\* The response arrives and the loop body runs up to the next requests.get, the
\* raise or the return.
SessionReceive(i) ==
    /\ inv[i].pc = "waiting"
    /\ \E r \in {Serve(inv[i].sent, i)} :
        IF r.status_code # 200
        THEN /\ inv' = [inv EXCEPT ![i].pc = "raised", ![i].responses = Append(@, r),
                                   ![i].outcome = ApiError(r)]
             /\ UNCHANGED heap
        ELSE \E studies \in {StudiesAfter(inv[i].all_studies, r.data)},
                tc \in {TotalAfter(inv[i].total_count, r.data)} :
               IF HasNextPage(r.data)
               THEN /\ heap' = [heap EXCEPT ![inv[i].ref] = ParamsAfter(@, r.data)]
                    /\ inv' = [inv EXCEPT ![i].pc = "request", ![i].responses = Append(@, r),
                                          ![i].all_studies = studies, ![i].total_count = tc]
               ELSE /\ inv' = [inv EXCEPT ![i].pc = "done", ![i].responses = Append(@, r),
                                          ![i].all_studies = studies, ![i].total_count = tc,
                                          ![i].outcome = SessionOutcome(inv[i].kind, studies, tc)]
                    /\ UNCHANGED heap
    /\ UNCHANGED <<upstream, given>>
    /\ UNCHANGED <<pvars, evars, fvars, uvars>>

SessionNext ==
    \E i \in 1..MaxCalls : FacadeEnter(i) \/ DirectEnter(i) \/ SessionSend(i) \/ SessionReceive(i)

SessionSpec == SessionInit /\ [][SessionNext]_vars

\* ------------------------------------------------------ the query generator
\* A datetime.date value, as the form's date inputs give it.
Date(y, m, d) == [t |-> "date", y |-> y, m |-> m, d |-> d]

\* date.strftime('%Y-%m-%d')
strftime_ymd(date) ==
    Pad(date.y, 4) \o <<"-">> \o Pad(date.m, 2) \o <<"-">> \o Pad(date.d, 2)

StartDateArea == <<"A","R","E","A","[","S","t","a","r","t","D","a","t","e","]","R","A","N","G","E","[">>
CompletionDateArea == <<"A","R","E","A","[","C","o","m","p","l","e","t","i","o","n","D","a","t","e","]","R","A","N","G","E","[">>

\* f"AREA[...]RANGE[{lo.strftime('%Y-%m-%d')},{hi.strftime('%Y-%m-%d')}]"
RangeClause(area, lo, hi) ==
    area \o strftime_ymd(lo) \o <<",">> \o strftime_ymd(hi) \o <<"]">>

\* " AND ".join(xs) for a sequence of texts
RECURSIVE JoinAnd(_)
JoinAnd(xs) ==
    IF Len(xs) = 0 THEN << >>
    ELSE IF Len(xs) = 1 THEN xs[1]
    ELSE xs[1] \o <<" ","A","N","D"," ">> \o JoinAnd(Tail(xs))

\* date_filters: a clause for each range whose two bounds are both true.
DateFilters(date_ranges) ==
    LET s == date_ranges["start_date_range"]
        e == date_ranges["end_date_range"]
    IN (IF Truthy(s[1]) /\ Truthy(s[2]) THEN <<RangeClause(StartDateArea, s[1], s[2])>> ELSE << >>)
       \o (IF Truthy(e[1]) /\ Truthy(e[2]) THEN <<RangeClause(CompletionDateArea, e[1], e[2])>> ELSE << >>)

\* json.loads(response.content): the decoded value, JSONDecodeError when the
\* content is no JSON text.
json_loads(content) ==
    IF content.json = Absent THEN Raise("JSONDecodeError") ELSE content.json

\* v[key] = value
SetItem(v, key, value) ==
    IF IsRaise(v) THEN v
    ELSE IF IsDict(v) THEN Dict(MapSet(v.m, key, value))
    ELSE Raise("TypeError")

\* The characters of the keys the URL builder looks for.
KeyChars(key) ==
    CASE key = "query.cond" -> <<"q","u","e","r","y",".","c","o","n","d">>
      [] key = "query.intr" -> <<"q","u","e","r","y",".","i","n","t","r">>
      [] key = "filter.advanced" -> <<"f","i","l","t","e","r",".","a","d","v","a","n","c","e","d">>
      [] key = "filter.overallStatus" -> <<"f","i","l","t","e","r",".","o","v","e","r","a","l","l","S","t","a","t","u","s">>
      [] key = "sort" -> <<"s","o","r","t">>

\* `key in v`: a key of a dict, an element of a list, a part of a str; no
\* other value of the model can be searched.
HasKey(v, key) ==
    CASE IsDict(v) -> Bool(key \in DOMAIN v.m)
      [] IsList(v) -> Bool(\E i \in 1..Len(v.xs) : v.xs[i] = Str(KeyChars(key)))
      [] IsStr(v)  -> Bool(Contains(v.s, KeyChars(key)))
      [] OTHER     -> Raise("TypeError")

\* re.search(area + r'(.*?),(.*?)\]', s) for an escaped area text: the two
\* groups of the leftmost match, each the shortest that lets the rest match
\* ('.' matches no line break); None when nothing matches.
RangeMatches(s, area) ==
    UNION { UNION { { <<i, c, b>> : b \in { k \in (c + 1)..Len(s) :
                                              /\ s[k] = "]"
                                              /\ \A j \in (i + Len(area))..(k - 1) : s[j] # "\n" } } :
                    c \in { k \in (i + Len(area))..Len(s) : s[k] = "," } } :
            i \in { k \in 1..Len(s) : MatchesAt(s, area, k) } }
Leftmost(ms) ==
    CHOOSE m \in ms : \A o \in ms :
        \/ m[1] < o[1]
        \/ m[1] = o[1] /\ m[2] < o[2]
        \/ m[1] = o[1] /\ m[2] = o[2] /\ m[3] <= o[3]
re_search_rangeVal(s, area) ==
    LET ms == RangeMatches(s, area)
    IN IF ms = {} THEN None
       ELSE LET m == Leftmost(ms)
            IN [t |-> "match",
                g1 |-> SubSeq(s, m[1] + Len(area), m[2] - 1),
                g2 |-> SubSeq(s, m[2] + 1, m[3] - 1)]
re_search_range(text, area) == CHOOSE r \in { re_search_rangeVal(s, area) : s \in {text} } : TRUE

\* One date range of 'filter.advanced' as a parameter "<from>_<to>".
RangeParam(acc, advanced, area, name) ==
    LET m == re_search_range(advanced, area)
    IN IF m = None THEN acc
       ELSE MapSet(acc, name, Str(Strip(m.g1) \o <<"_">> \o Strip(m.g2)))

status_map ==
    <<"C","O","M","P","L","E","T","E","D">> :> <<"c","o","m">>
    @@ <<"R","E","C","R","U","I","T","I","N","G">> :> <<"r","e","c">>
    @@ <<"N","O","T","_","Y","E","T","_","R","E","C","R","U","I","T","I","N","G">> :> <<"n","y","r">>
    @@ <<"A","C","T","I","V","E","_","N","O","T","_","R","E","C","R","U","I","T","I","N","G">> :> <<"a","n","r">>
    @@ <<"T","E","R","M","I","N","A","T","E","D">> :> <<"t","e","r","m">>
    @@ <<"W","I","T","H","D","R","A","W","N">> :> <<"w","t","h">>
    @@ <<"S","U","S","P","E","N","D","E","D">> :> <<"s","u","s">>

\* if key in query: params[name] = query[key]
CopyParam(query, acc, key, name) ==
    IF IsRaise(acc) THEN acc
    ELSE LET h == HasKey(query, key)
         IN IF IsRaise(h) THEN h
            ELSE IF ~h.b THEN acc
            ELSE LET v == Item(query, key)
                 IN IF IsRaise(v) THEN v ELSE Dict(MapSet(acc.m, name, v))

\* if 'filter.advanced' in query: the two date ranges found in its text
AdvancedParams(query, acc) ==
    IF IsRaise(acc) THEN acc
    ELSE LET h == HasKey(query, "filter.advanced")
         IN IF IsRaise(h) THEN h
            ELSE IF ~h.b THEN acc
            ELSE LET advanced == Item(query, "filter.advanced")
                 IN IF IsRaise(advanced) THEN advanced
                    ELSE IF ~IsStr(advanced) THEN Raise("TypeError")
                    ELSE Dict(RangeParam(RangeParam(acc.m, advanced.s, StartDateArea, "start"),
                                         advanced.s, CompletionDateArea, "studyComp"))

\* if 'filter.overallStatus' in query: the first element of a list, looked
\* up in status_map
StatusParam(query, acc) ==
    IF IsRaise(acc) THEN acc
    ELSE LET h == HasKey(query, "filter.overallStatus")
         IN IF IsRaise(h) THEN h
            ELSE IF ~h.b THEN acc
            ELSE LET given_status == Item(query, "filter.overallStatus")
                     status == IF IsRaise(given_status) THEN given_status
                               ELSE IF ~IsList(given_status) THEN given_status
                               ELSE IF given_status.xs = << >> THEN Raise("IndexError")
                               ELSE given_status.xs[1]
                 IN IF IsRaise(status) THEN status
                    ELSE IF IsList(status) \/ IsDict(status) THEN Raise("TypeError")
                    ELSE IF IsStr(status) /\ status.s \in DOMAIN status_map
                    THEN Dict(MapSet(acc.m, "aggFilters", Str(<<"s","t","a","t","u","s",":">> \o status_map[status.s])))
                    ELSE acc

\* if 'sort' in query: newest first when the list asks for it
SortParam(query, acc) ==
    IF IsRaise(acc) THEN acc
    ELSE LET h == HasKey(query, "sort")
         IN IF IsRaise(h) THEN h
            ELSE IF ~h.b THEN acc
            ELSE LET sort_options == Item(query, "sort")
                 IN IF IsRaise(sort_options) THEN sort_options
                    ELSE IF /\ IsList(sort_options)
                            /\ \E i \in 1..Len(sort_options.xs) :
                                  sort_options.xs[i] = Str(<<"L","a","s","t","U","p","d","a","t","e","P","o","s","t","D","a","t","e",":","d","e","s","c">>)
                    THEN Dict(MapSet(acc.m, "sort", Str(<<"n","w","s","t">>)))
                    ELSE acc

\* QueryGenerator.create_clinicaltrials_gov_url(query): the search URL, given
\* by the parameters its query string encodes, or the exception raised on
\* the way.
create_clinicaltrials_gov_urlVal(query) ==
    LET p0 == Dict("viewType" :> Str(<<"T","a","b","l","e">>))
        p1 == CopyParam(query, p0, "query.cond", "cond")
        p2 == CopyParam(query, p1, "query.intr", "intr")
        p3 == AdvancedParams(query, p2)
        p4 == StatusParam(query, p3)
        p5 == SortParam(query, p4)
    IN IF IsRaise(p5) THEN p5 ELSE [t |-> "url", params |-> p5.m]
create_clinicaltrials_gov_url(query) ==
    CHOOSE r \in { create_clinicaltrials_gov_urlVal(q) : q \in {query} } : TRUE

\* QueryGenerator.generate_query(...), from the content of the LLM's response
\* and the date ranges of the form: the query, None, or the exception raised.
generate_queryVal(content, date_ranges) ==
    LET decoded == json_loads(content)
    IN IF IsRaise(decoded) THEN None
       ELSE LET date_filters == DateFilters(date_ranges)
                query == IF date_filters # << >>
                         THEN SetItem(decoded, "filter.advanced", Str(JoinAnd(date_filters)))
                         ELSE decoded
            IN IF IsRaise(query) THEN query
               ELSE LET ct_gov_url == create_clinicaltrials_gov_url(query)
                    IN IF IsRaise(ct_gov_url) THEN ct_gov_url ELSE query
generate_query(content, date_ranges) ==
    CHOOSE r \in { generate_queryVal(c, date_ranges) : c \in {content} } : TRUE

\* ------------------------------------------ the functions alone (FunSpec)
\* Date sources: the fields of "Month DD, YYYY" in right and wrong forms, other
\* strings, and values of other types.
DateMonths == { <<"J","a","n","u","a","r","y">>, <<"F","e","b","r","u","a","r","y">>,
                <<"j","u","n","e">>, <<"J","a","n">> }
DateDays == { <<"5">>, <<"0","5">>, <<"2","9">>, <<"3","0">>, <<"3","1">>, <<"0">>, <<"3","2">> }
DateYears == { <<"2","0","2","1">>, <<"2","0","2","0">>, <<"2","1">> }
DateInputs ==
    { Str(m \o s1 \o d \o s2 \o y) :
        m \in DateMonths, s1 \in { <<" ">>, << >> }, d \in DateDays,
        s2 \in { <<",", " ">>, <<",">> }, y \in DateYears }
    \cup { EmptyStr, Str(<<"2","0","2","2","-","0","3">>), Str(<<" ">>), None, PyInt(0), PyInt(7),
           Bool(TRUE), List(<< >>), List(<<Str(January5)>>), EmptyDict }

\* Lines of a criteria text: plain, padded, blank, and one with "Criteria:" in it.
CriteriaLines ==
    { <<"A">>, <<"B">>, <<" ", "C", " ">>, << >>, <<" ">>, <<"M", " ">> \o CriteriaColon \o <<" ", "n">> }
CriteriaLineSeqs ==
    { << >> } \cup { <<a>> : a \in CriteriaLines } \cup { <<a, b>> : a, b \in CriteriaLines }

\* The text with an inclusion and an exclusion section.
SectionedText(incl, excl) ==
    JoinLines(<<InclusionLabel \o <<" ">> \o CriteriaColon>> \o incl \o
              <<ExclusionLabel \o <<" ">> \o CriteriaColon>> \o excl)

\* Criteria texts with the parts they are made of, and values that are no text.
CriteriaInputs ==
    { [text |-> Str(SectionedText(incl, excl)), kind |-> "sections", incl |-> incl, excl |-> excl] :
        incl \in CriteriaLineSeqs, excl \in CriteriaLineSeqs }
    \cup { [text |-> Str(JoinLines(ls)), kind |-> "plain", incl |-> ls, excl |-> << >>] :
             ls \in CriteriaLineSeqs }
    \cup { [text |-> v, kind |-> "other", incl |-> << >>, excl |-> << >>] : v \in { None, PyInt(7), List(<< >>) } }

\* Batches of raw candidates: a record, another record, null, and a string.
BatchCandidates == { StudyA, StudyB, None, NotAStudy }
Batches ==
    { << >> } \cup { <<a>> : a \in BatchCandidates } \cup { <<a, b>> : a, b \in BatchCandidates }
    \cup { <<a, b, c>> : a, b, c \in BatchCandidates }

\* Free texts over markup characters, up to four characters long.
MarkupChars == { "<", ">", "\n", "a" }
MarkupTexts ==
    { << >> } \cup { <<a>> : a \in MarkupChars } \cup { <<a, b>> : a, b \in MarkupChars }
    \cup { <<a, b, c>> : a, b, c \in MarkupChars }
    \cup { <<a, b, c, d>> : a, b, c, d \in MarkupChars }

\* The record whose three free-text fields hold s.
TextStudy(s) ==
    Dict("protocolSection" :> Dict(
            "descriptionModule" :> Dict("briefSummary" :> Str(s) @@ "detailedDescription" :> Str(s)) @@
            "eligibilityModule" :> Dict("eligibilityCriteria" :> Str(s))))

\* Lines of an eligibility text: plain, with markup, padded, and a heading of
\* the exclusion section that mentions the other label.
MarkedUpLine == <<"<", "i", ">", "B", "<", "/", "i", ">">>
MixedHeading == ExclusionLabel \o <<" ">> \o CriteriaColon \o <<" ">> \o InclusionLabel
EligibilityLines == { <<"A">>, MarkedUpLine, <<" ", "C", " ">>, MixedHeading }
EligibilityLineSeqs ==
    { << >> } \cup { <<a>> : a \in EligibilityLines } \cup { <<a, b>> : a, b \in EligibilityLines }

\* Records whose eligibility text has both sections, with the lines the text
\* is made of.
EligibilityStudies ==
    { [study |-> TextStudy(SectionedText(incl, excl)), incl |-> incl, excl |-> excl] :
        incl \in EligibilityLineSeqs, excl \in EligibilityLineSeqs }

\* Location candidates: a mapping with a facility name, one with a nested
\* facility mapping, one without a facility, one with an empty facility
\* mapping, a bare string and null.
LocationCandidates ==
    { Dict("facility" :> Str(<<"F">>) @@ "city" :> Str(<<"c">>) @@ "country" :> Str(<<"u">>)),
      Dict("facility" :> Dict("name" :> Str(<<"G">>)) @@ "city" :> Str(<<"k">>)),
      Dict("city" :> Str(<<"m">>)),
      Dict("facility" :> EmptyDict @@ "country" :> Str(<<"v">>)),
      Str(<<"H">>),
      None }
\* Values of the 'locations' key: sequences of candidates, and values that are
\* no sequence.
LocationValues ==
    { List(<< >>) } \cup { List(<<a>>) : a \in LocationCandidates }
    \cup { List(<<a, b>>) : a, b \in LocationCandidates }
    \cup { List(<<a, b, c>>) : a, b, c \in LocationCandidates }
    \cup { Str(<<"H">>), None, PyInt(7), EmptyDict }
LocationStudy(v) ==
    Dict("protocolSection" :> Dict("contactsLocationsModule" :> Dict("locations" :> v)))

\* Candidates of a repeated extraction: the base records, the full record with
\* one value retyped, records of free text, records with a sectioned
\* eligibility text, records with locations, and values that are no record.
TrialInputs ==
    BaseStudies
    \cup { ReplaceAt(FullStudy, p, w) : p \in PathsOf(FullStudy), w \in { None, Str(<<"x">>) } }
    \cup { TextStudy(s) : s \in MarkupTexts }
    \cup { e.study : e \in EligibilityStudies }
    \cup { LocationStudy(v) : v \in LocationValues }
    \cup { None, NotAStudy }

\* Raw records whose structured records are handed to the formatters.
NamelessIntervention ==
    Dict("protocolSection" :> Dict("armsInterventionsModule" :> Dict("interventions" :> List(<<EmptyDict>>))))
FormatSources == BaseStudies \cup { StudyA, StudyB, NamelessIntervention }

\* What the LLM may answer: queries of the expected shape, with and without a
\* 'filter.advanced' of its own, queries whose values have other shapes,
\* JSON values that are no mapping, and content that is no JSON text.
Content(v) == [t |-> "content", json |-> v]
CondQuery == "query.cond" :> Str(<<"x">>)
LLMAdvanced == Str(<<"L">>)
LLMRange == Str(<<"A","R","E","A","[","S","t","a","r","t","D","a","t","e","]","R","A","N","G","E","["," ","a"," ",","," ","b"," ","]"," ","A","N","D"," ","A","R","E","A","[","C","o","m","p","l","e","t","i","o","n","D","a","t","e","]","R","A","N","G","E","[","c",",","d","]","x","]">>)
LLMQueries ==
    { Dict(CondQuery),
      Dict(CondQuery @@ "filter.advanced" :> LLMAdvanced),
      Dict(CondQuery @@ "filter.advanced" :> LLMRange),
      Dict(CondQuery @@ "query.intr" :> Str(<<"y">>) @@ "sort" :> List(<<Str(<<"L","a","s","t","U","p","d","a","t","e","P","o","s","t","D","a","t","e",":","d","e","s","c">>)>>)),
      Dict(CondQuery @@ "filter.overallStatus" :> List(<<Str(<<"C","O","M","P","L","E","T","E","D">>)>>)),
      Dict(CondQuery @@ "filter.overallStatus" :> Str(<<"R","E","C","R","U","I","T","I","N","G">>)),
      Dict(CondQuery @@ "filter.overallStatus" :> List(<< >>)),
      Dict(CondQuery @@ "filter.overallStatus" :> List(<<List(<<Str(<<"a">>)>>)>>)),
      Dict(CondQuery @@ "filter.overallStatus" :> EmptyDict),
      Dict(CondQuery @@ "filter.advanced" :> PyInt(5)),
      Dict(CondQuery @@ "filter.advanced" :> None),
      EmptyDict, List(<< >>), PyInt(5), Str(<<"s">>), None }
LLMContents == { Content(q) : q \in LLMQueries } \cup { Content(Absent) }

\* The date ranges of the form: each bound a date or unset.
DateBounds == { None, Date(2020, 1, 5), Date(2021, 12, 31) }
DateRangeInputs ==
    { "start_date_range" :> <<a, b>> @@ "end_date_range" :> <<c, d>> : a, b, c, d \in DateBounds }

\* The calls a caller may make: <<function, argument, what it is made of>>.
FunctionCalls ==
    { <<"parse_date", d, d>> : d \in DateInputs }
    \cup { <<"parse_criteria", <<c.text, label>>, c>> :
             c \in CriteriaInputs, label \in {InclusionLabel, ExclusionLabel} }
    \cup { <<"structure_data", b, b>> : b \in Batches }
    \cup { <<"structure_clinical_trial", c, c>> : c \in TrialInputs }
    \cup { <<f, structure_clinical_trial(c), c>> :
             f \in {"_format_study_details", "_format_study_summary"}, c \in FormatSources }
    \cup { <<"generate_query", <<c, r>>, c>> : c \in LLMContents, r \in DateRangeInputs }

FunInit ==
    /\ PipelineIdle
    /\ ExtractorIdle
    /\ SessionIdle
    /\ StateIdle
    /\ \E c \in FunctionCalls :
        /\ op = c[1]
        /\ args = c[2]
        /\ given = c[3]
    /\ outs = << >>

\* parse_date(args)
ParseDate ==
    /\ op = "parse_date"
    /\ Len(outs) < MaxRuns
    /\ outs' = Append(outs, parse_date(args))
    /\ UNCHANGED <<op, args, given>>
    /\ UNCHANGED <<pvars, evars, svars, uvars>>

\* parse_criteria(criteria_text, criteria_type)
ParseCriteria ==
    /\ op = "parse_criteria"
    /\ Len(outs) < MaxRuns
    /\ outs' = Append(outs, parse_criteria(args[1], args[2]))
    /\ UNCHANGED <<op, args, given>>
    /\ UNCHANGED <<pvars, evars, svars, uvars>>

\* APIHandler.structure_data(studies)
StructureData ==
    /\ op = "structure_data"
    /\ Len(outs) < MaxRuns
    /\ outs' = Append(outs, structure_data(args))
    /\ UNCHANGED <<op, args, given>>
    /\ UNCHANGED <<pvars, evars, svars, uvars>>

\* structure_clinical_trial(study), on the same candidate object each time
StructureTrial ==
    /\ op = "structure_clinical_trial"
    /\ Len(outs) < MaxRuns
    /\ outs' = Append(outs, structure_clinical_trial(args))
    /\ args' = StudyAfterCall(args)
    /\ UNCHANGED <<op, given>>
    /\ UNCHANGED <<pvars, evars, svars, uvars>>

\* ProtocolGenerator._format_study_details(study) on a structured record
FormatStudyDetails ==
    /\ op = "_format_study_details"
    /\ Len(outs) < MaxRuns
    /\ outs' = Append(outs, format_study_details(args))
    /\ UNCHANGED <<op, args, given>>
    /\ UNCHANGED <<pvars, evars, svars, uvars>>

\* ResultAnalyzer._format_study_summary(study) on a structured record
FormatStudySummary ==
    /\ op = "_format_study_summary"
    /\ Len(outs) < MaxRuns
    /\ outs' = Append(outs, format_study_summary(args))
    /\ UNCHANGED <<op, args, given>>
    /\ UNCHANGED <<pvars, evars, svars, uvars>>

\* QueryGenerator.generate_query(...) on the LLM's content and the form's dates
GenerateQuery ==
    /\ op = "generate_query"
    /\ Len(outs) < MaxRuns
    /\ outs' = Append(outs, generate_query(args[1], args[2]))
    /\ UNCHANGED <<op, args, given>>
    /\ UNCHANGED <<pvars, evars, svars, uvars>>

FunNext ==
    \/ ParseDate \/ ParseCriteria \/ StructureData \/ StructureTrial
    \/ FormatStudyDetails \/ FormatStudySummary \/ GenerateQuery

FunSpec == FunInit /\ [][FunNext]_vars

\* ------------------------------------------------ the session state (StateSpec)
\* states: the tracked keys in the order of the dict literal, and their
\* defaults.
TrackedKeys ==
    <<"structured_studies", "selected_studies", "search_performed", "total_count",
      "summary_generated", "criteria_analyzed", "publications_summarized",
      "comparison_analyzed", "analysis_complete">>
TrackedDefaults ==
    "structured_studies" :> List(<< >>) @@ "selected_studies" :> List(<< >>)
    @@ "search_performed" :> Bool(FALSE) @@ "total_count" :> PyInt(0)
    @@ "summary_generated" :> Bool(FALSE) @@ "criteria_analyzed" :> Bool(FALSE)
    @@ "publications_summarized" :> Bool(FALSE) @@ "comparison_analyzed" :> Bool(FALSE)
    @@ "analysis_complete" :> Bool(FALSE)

\* Faulty variant of InitialisedFrom: a key whose value is false is given its
\* default again (`if not st.session_state.get(key)`).
RECURSIVE InitialisedWhenFalse(_, _)
InitialisedWhenFalse(state, i) ==
    IF i > Len(TrackedKeys) THEN state
    ELSE InitialisedWhenFalse(
             IF TrackedKeys[i] \notin DOMAIN state \/ ~Truthy(state[TrackedKeys[i]])
             THEN MapSet(state, TrackedKeys[i], TrackedDefaults[TrackedKeys[i]])
             ELSE state,
             i + 1)

\* The loop of initialize_session_state from the i-th tracked key on:
\* `if key not in st.session_state: st.session_state[key] = default_value`.
RECURSIVE InitialisedFrom(_, _)
InitialisedFrom(state, i) ==
    IF i > Len(TrackedKeys) THEN state
    ELSE InitialisedFrom(
             IF TrackedKeys[i] \notin DOMAIN state
             THEN MapSet(state, TrackedKeys[i], TrackedDefaults[TrackedKeys[i]])
             ELSE state,
             i + 1)

\* initialize_session_state() on the session state
initialize_session_state(state) == InitialisedFrom(state, 1)

\* What the pages write: a tracked key or another one, with a value equal to
\* the default, a false value, or another value.
WrittenKeys == { "selected_studies", "total_count", "search_performed", "note" }
WrittenValues == { List(<< >>), None, PyInt(5), List(<<Str(<<"A">>)>>) }

\* A browser session starts with an empty session state.
StateInit ==
    /\ PipelineIdle
    /\ ExtractorIdle
    /\ SessionIdle
    /\ FunctionIdle
    /\ session_state = EmptyMap
    /\ state_log = << >>
    /\ given = None

\* initialize_session_state()
Initialize ==
    /\ Len(state_log) < MaxStateOps
    /\ \E after \in { initialize_session_state(session_state) } :
        /\ session_state' = after
        /\ state_log' = Append(state_log, [op |-> "initialize", before |-> session_state, after |-> after])
    /\ UNCHANGED <<pvars, evars, svars, fvars, given>>

\* st.session_state.<key> = value
WriteState ==
    /\ Len(state_log) < MaxStateOps
    /\ \E key \in WrittenKeys, value \in WrittenValues :
        /\ session_state' = MapSet(session_state, key, value)
        /\ state_log' = Append(state_log, [op |-> "write", before |-> session_state,
                                           after |-> MapSet(session_state, key, value)])
    /\ UNCHANGED <<pvars, evars, svars, fvars, given>>

StateNext == Initialize \/ WriteState

StateSpec == StateInit /\ [][StateNext]_vars

\* ------------------------------------------------------------------ claims
\* Helpers of the properties below.  They read the logs `requests` and
\* `responses` and the keys of the decoded objects directly.
IsOk(r) == r.status_code = 200
CarriesToken(r) == "nextPageToken" \in DOMAIN r.data
CarriesTotal(r) == "totalCount" \in DOMAIN r.data
PageRecords(r) == IF "studies" \in DOMAIN r.data THEN r.data["studies"].xs ELSE << >>

\* The records of pages 1..n of rs, page after page.
RECURSIVE ConcatPages(_, _)
ConcatPages(rs, n) == IF n = 0 THEN << >> ELSE ConcatPages(rs, n - 1) \o PageRecords(rs[n])

\* The totalCount of the latest response of rs that carries one, else 0.
LastSeenTotal(rs) ==
    LET with == { i \in 1..Len(rs) : CarriesTotal(rs[i]) }
    IN IF with = {} THEN PyInt(0)
       ELSE rs[CHOOSE i \in with : \A j \in with : j <= i].data["totalCount"]

\* C1: when fetch_studies returns, it has issued one request per page, every
\* page but the last carried a nextPageToken and the last carried none, and the
\* returned records are the concatenation, in page order, of the pages'
\* 'studies' arrays; and a run of successful pages ending with a page without a
\* token makes the call return.
C1_PaginationComplete ==
    /\ fetched.t = "return" =>
        /\ Len(requests) = Len(responses)
        /\ \A i \in 1..Len(responses) : IsOk(responses[i])
        /\ \A i \in 1..(Len(responses) - 1) : CarriesToken(responses[i])
        /\ ~CarriesToken(responses[Len(responses)])
        /\ fetched.studies = ConcatPages(responses, Len(responses))
    /\ ( /\ pc \in {"done", "raised"}
         /\ \A i \in 1..Len(responses) : IsOk(responses[i]) ) => fetched.t = "return"

\* C1 witness: a call that returned after three pages with four or more records.
C1_Witness ==
    /\ fetched.t = "return"
    /\ Len(responses) = 3
    /\ Len(fetched.studies) >= 4

\* C2: a response with a status other than 200 is the last one of the call: the
\* call raises an error carrying its status code and body, nothing accumulated
\* is returned by fetch_studies or by the facade, and no request follows.
C2_AbortAllOrNothing ==
    \A i \in 1..Len(responses) :
        ~IsOk(responses[i]) =>
            /\ i = Len(responses)
            /\ Len(requests) = i
            /\ pc \in {"response", "raised"}
            /\ pc = "raised" =>
                /\ fetched.t = "raise"
                /\ fetched.status_code = responses[i].status_code
                /\ fetched.text = responses[i].text
                /\ result = fetched

\* C2 witness: the error came on a later page, after records were accumulated.
C2_Witness ==
    /\ pc = "raised"
    /\ Len(responses) >= 2
    /\ ~IsOk(responses[Len(responses)])
    /\ all_studies # << >>

\* C3: the record sequence returned by fetch_and_structure_studies (the output
\* of structure_data) contains no None element.
C3_NoNoneStructured ==
    result.t = "return" => \A i \in 1..Len(result.studies) : result.studies[i] # None

\* C4: every step the call takes with a response in hand ends the call exactly
\* when that response is not 200 or carries no nextPageToken, and asks for
\* another page otherwise; and as long as every response received is 200 with
\* a token the call has not returned.
C4_StopsExactly ==
    [][ pc = "response" /\ pc' # "response" =>
            /\ pc' \in {"done", "raised"} <=> (~IsOk(response) \/ ~CarriesToken(response))
            /\ pc' = "request" <=> (IsOk(response) /\ CarriesToken(response)) ]_vars
C4_NeverReturnsOnTokens ==
    (\A i \in 1..Len(responses) : IsOk(responses[i]) /\ CarriesToken(responses[i]))
        => pc \notin {"done", "raised"}
C4_Termination ==
    /\ C4_StopsExactly
    /\ []C4_NeverReturnsOnTokens

\* C4 witness: a call that went through three pages and returned on a page
\* without a token.
C4_Witness ==
    /\ pc = "done"
    /\ Len(responses) = 3
    /\ ~CarriesToken(responses[3])

\* C5: the k-th request (k >= 2) carries the parameters of the first request
\* plus pageToken = the nextPageToken of the (k-1)-th response; nothing else
\* differs.
C5_TokenChaining ==
    \A k \in 2..Len(requests) :
        /\ CarriesToken(responses[k - 1])
        /\ DOMAIN requests[k] = (DOMAIN requests[1]) \cup {"pageToken"}
        /\ requests[k]["pageToken"] = responses[k - 1].data["nextPageToken"]
        /\ \A key \in (DOMAIN requests[1]) \ {"pageToken"} : requests[k][key] = requests[1][key]

\* C5 witness: three requests, the second and the third with different tokens.
C5_Witness ==
    /\ Len(requests) = 3
    /\ requests[2]["pageToken"] # requests[3]["pageToken"]

\* C6: the total count returned is the totalCount of the latest response that
\* carried one (0 when none did); so it is the last page's totalCount whenever
\* the last page reports one.  The facade returns the same total.
C6_ReportedTotal ==
    fetched.t = "return" =>
        /\ fetched.total_count = LastSeenTotal(responses)
        /\ CarriesTotal(responses[Len(responses)]) =>
              fetched.total_count = responses[Len(responses)].data["totalCount"]
        /\ result.t = "return" => result.total_count = fetched.total_count

\* C6 witness: two or more pages, the last reporting a total that differs from
\* the first page's.
C6_Witness ==
    /\ fetched.t = "return"
    /\ Len(responses) >= 2
    /\ CarriesTotal(responses[1])
    /\ CarriesTotal(responses[Len(responses)])
    /\ responses[1].data["totalCount"] # responses[Len(responses)].data["totalCount"]

\* The 19 keys of the dict display of structure_clinical_trial.
TopLevelKeys ==
    { "nct_id", "title", "brief_summary", "detailed_description", "status", "start_date", "end_date",
      "eligibility", "inclusion_criteria", "exclusion_criteria", "healthy_volunteers_eligible",
      "sex_eligible", "minimum_age", "maximum_age", "interventions", "outcomes", "sponsor",
      "locations", "publications" }

\* The record of a candidate without any content.
BlankRecord ==
    Dict([k \in TopLevelKeys |->
        CASE k \in {"brief_summary", "detailed_description"} -> EmptyStr
          [] k \in {"interventions", "locations", "publications"} -> List(<< >>)
          [] k = "eligibility" ->
                Dict("criteria" :> EmptyStr @@ "healthy_volunteers" :> None @@ "sex" :> None @@
                     "gender_based" :> None @@ "minimum_age" :> None @@ "maximum_age" :> None)
          [] k = "outcomes" -> Dict("primary" :> List(<< >>) @@ "secondary" :> List(<< >>))
          [] k = "sponsor" -> Dict("name" :> None @@ "type" :> None)
          [] OTHER -> None])

\* The candidate has the key and its value is not a mapping.
HasNonMapping(c, key) == key \in DOMAIN c.m /\ c.m[key].t # "dict"

\* C7 (as stated): a candidate that is not a mapping, and a mapping candidate
\* that has neither a protocolSection nor a derivedSection, extract to None.
C7_MissingSectionsGiveNone ==
    ( /\ extracted # Absent
      /\ \/ candidate.t # "dict"
         \/ candidate.t = "dict" /\ DOMAIN candidate.m \cap {"protocolSection", "derivedSection"} = {} )
    => extracted = None

\* C7 (amended): a candidate that is not a mapping, and a mapping candidate
\* whose protocolSection or derivedSection is present and is not a mapping,
\* extract to None; a mapping candidate that has neither section is not
\* rejected: it extracts to the record with every field null or empty.
C7_MalformedGiveNone ==
    extracted # Absent =>
        /\ candidate.t # "dict" => extracted = None
        /\ ( /\ candidate.t = "dict"
             /\ HasNonMapping(candidate, "protocolSection") \/ HasNonMapping(candidate, "derivedSection") )
           => extracted = None
        /\ ( /\ candidate.t = "dict"
             /\ DOMAIN candidate.m \cap {"protocolSection", "derivedSection"} = {} )
           => extracted = BlankRecord

\* C7 witness: a mapping with neither section has been extracted.
C7_Witness ==
    /\ extracted # Absent
    /\ candidate.t = "dict"
    /\ DOMAIN candidate.m \cap {"protocolSection", "derivedSection"} = {}

\* C8: structure_clinical_trial returns None exactly when the candidate is not
\* a mapping, or its protocolSection is present and not a mapping, or its
\* derivedSection is present and not a mapping.
C8_NoneExactlyWhenMalformed ==
    extracted # Absent =>
        ( extracted = None <=>
            \/ candidate.t # "dict"
            \/ candidate.t = "dict" /\ HasNonMapping(candidate, "protocolSection")
            \/ candidate.t = "dict" /\ HasNonMapping(candidate, "derivedSection") )

\* C8 witness: a mapping rejected because of its derivedSection alone.
C8_Witness ==
    /\ extracted = None
    /\ candidate.t = "dict"
    /\ HasNonMapping(candidate, "derivedSection")
    /\ ~HasNonMapping(candidate, "protocolSection")

\* v is made of parts of shape only: the same type at every place, with any
\* keys and list elements left out.
RECURSIVE Conforms(_, _)
Conforms(v, shape) ==
    /\ v.t = shape.t
    /\ v.t = "dict" => /\ DOMAIN v.m \subseteq DOMAIN shape.m
                       /\ \A k \in DOMAIN v.m : Conforms(v.m[k], shape.m[k])
    /\ v.t = "list" => \A i \in 1..Len(v.xs) : \E j \in 1..Len(shape.xs) : Conforms(v.xs[i], shape.xs[j])

\* C9: for a mapping candidate whose sections are mappings and whose nested
\* values have the expected types, whatever keys are missing, the extraction
\* does not raise and returns a dict with exactly the 19 top-level keys, the
\* nested eligibility, outcomes and sponsor dicts having their fixed keys too.
C9_FixedKeySet ==
    (extracted # Absent /\ Conforms(candidate, FullStudy)) =>
        /\ extracted.t = "dict"
        /\ DOMAIN extracted.m = TopLevelKeys
        /\ extracted.m["eligibility"].t = "dict"
        /\ DOMAIN extracted.m["eligibility"].m =
              {"criteria", "healthy_volunteers", "sex", "gender_based", "minimum_age", "maximum_age"}
        /\ extracted.m["outcomes"].t = "dict"
        /\ DOMAIN extracted.m["outcomes"].m = {"primary", "secondary"}
        /\ extracted.m["sponsor"].t = "dict"
        /\ DOMAIN extracted.m["sponsor"].m = {"name", "type"}

\* C9 witness: a record extracted from a candidate that lacks a nested key of
\* the full record.
C9_Witness ==
    /\ extracted # Absent
    /\ extracted.t = "dict"
    /\ Conforms(candidate, FullStudy)
    /\ "protocolSection" \in DOMAIN candidate.m
    /\ "statusModule" \in DOMAIN candidate.m["protocolSection"].m
    /\ "startDateStruct" \notin DOMAIN candidate.m["protocolSection"].m["statusModule"].m

\* C10: structure_clinical_trial returns a record or None and never raises,
\* whatever the types of the candidate's nested values.
C10_NeverRaises ==
    extracted # Absent => extracted.t \in {"dict", "None"}

\* The value the k-th request carries under key, Absent when it has none.
Sent(k, key) == IF key \in DOMAIN requests[k] THEN requests[k][key] ELSE Absent

\* A caller's value as a query string carries it: a list of statuses is
\* sent as the comma-separated list.
SentForm(v) == IF v.t = "list" THEN Str(JoinComma(v.xs)) ELSE v

JsonFormat == Str(<<"j","s","o","n">>)
CountTotalOn == Str(<<"t","r","u","e">>)

\* C13: every request carries each caller-supplied filter parameter (every key
\* but the paging cursor pageToken, which the first request carries as given
\* and later requests replace) with the caller's value, a list of statuses
\* as its comma-joined string; it carries pageSize 100 and countTotal 'true'
\* when the caller supplied no such key, and the caller's value when it did.
C13_DefaultMerge ==
    \A k \in 1..Len(requests) :
        /\ \A key \in (DOMAIN query_params) \ {"pageToken"} : Sent(k, key) = SentForm(query_params[key])
        /\ "pageSize" \notin DOMAIN query_params => Sent(k, "pageSize") = PyInt(100)
        /\ "countTotal" \notin DOMAIN query_params => Sent(k, "countTotal") = CountTotalOn
        /\ (k = 1 /\ "pageToken" \in DOMAIN query_params) => Sent(k, "pageToken") = query_params["pageToken"]

\* C13 witness: a second request that carries the caller's pageSize and the
\* joined status list.
C13_Witness ==
    /\ Len(requests) >= 2
    /\ "pageSize" \in DOMAIN query_params
    /\ Sent(2, "pageSize") = PyInt(2)
    /\ Sent(2, "filter.overallStatus") = Str(<<"R", ",", "C">>)

\* C14 (as stated): every request carries format = 'json' and countTotal =
\* 'true', whatever the caller's mapping contains.
C14_FormatFixed ==
    \A k \in 1..Len(requests) :
        /\ Sent(k, "format") = JsonFormat
        /\ Sent(k, "countTotal") = CountTotalOn

\* C14 (amended): every request carries a format and a countTotal: 'json' and
\* 'true' when the caller's mapping has no such key, and the caller's own value
\* when it has one.
C14_FormatDefaulted ==
    \A k \in 1..Len(requests) :
        /\ Sent(k, "format") =
              (IF "format" \in DOMAIN query_params THEN query_params["format"] ELSE JsonFormat)
        /\ Sent(k, "countTotal") =
              (IF "countTotal" \in DOMAIN query_params THEN query_params["countTotal"] ELSE CountTotalOn)

\* C14 witness: a request was sent for a caller's mapping that has a 'format'
\* key, and it carries that value.
C14_Witness ==
    /\ Len(requests) >= 1
    /\ "format" \in DOMAIN query_params
    /\ Sent(1, "format") = query_params["format"]

\* Every response is successful and every record of every page is a mapping
\* whose sections are mappings.
WellFormedPages ==
    \A i \in 1..Len(responses) :
        /\ IsOk(responses[i])
        /\ \A j \in 1..Len(PageRecords(responses[i])) :
              LET raw == PageRecords(responses[i])[j]
              IN /\ raw.t = "dict"
                 /\ ~HasNonMapping(raw, "protocolSection")
                 /\ ~HasNonMapping(raw, "derivedSection")

\* C15: when fetch_studies has returned from pages of well-formed records, the
\* facade returns one structured record per retrieved raw record, in retrieval
\* order (the i-th record has the nct id of the i-th raw record), together with
\* the total the registry reported.
C15_EndToEnd ==
    (fetched.t = "return" /\ WellFormedPages) =>
        LET raw == ConcatPages(responses, Len(responses))
        IN /\ result.t = "return"
           /\ Len(result.studies) = Len(raw)
           /\ \A i \in 1..Len(raw) :
                 /\ result.studies[i].t = "dict"
                 /\ result.studies[i].m["nct_id"] =
                       raw[i].m["protocolSection"].m["identificationModule"].m["nctId"]
           /\ result.total_count = LastSeenTotal(responses)

\* C15 witness: two well-formed pages, four records returned with the total the
\* last page reported.
C15_Witness ==
    /\ result.t = "return"
    /\ WellFormedPages
    /\ Len(responses) = 2
    /\ Len(result.studies) = 4
    /\ CarriesTotal(responses[2])

\* C16: parse_date never raises; for a string it returns 'YYYY-MM-DD' when the
\* string is a date of the form 'Month DD, YYYY' and the string itself
\* otherwise (the empty string included); it returns None only for None.
C16_DateNormalised ==
    (op = "parse_date" /\ outs # << >>) =>
        /\ ~IsRaise(outs[1])
        /\ args.t = "str" =>
              outs[1] = (IF Strptime(args.s).ok THEN Str(Strftime(Strptime(args.s))) ELSE args)
        /\ outs[1] = None <=> args = None

\* A line with something other than whitespace in it.
NonBlank(line) == \E i \in 1..Len(line) : line[i] \notin Whitespace

\* The non-blank lines of ls, each without its surrounding whitespace, joined
\* by newlines; None when there is none.
SectionOf(ls) ==
    LET kept == SelectSeq(ls, NonBlank)
    IN IF kept = << >> THEN None
       ELSE Str(JoinLines([i \in 1..Len(kept) |-> Strip(kept[i])]))

\* The lines of the section that the label of the call names.
LabelledLines == IF args[2] = InclusionLabel THEN given.incl ELSE given.excl

\* C17 (as stated): for a text made of the inclusion marker line, inclusion
\* lines, the exclusion marker line and exclusion lines, parse_criteria returns
\* the non-blank lines of the labelled section joined by newlines (None when
\* there is none); for a text without marker it returns None; it never returns
\* the empty string.
C17_CriteriaSplit ==
    (op = "parse_criteria" /\ outs # << >>) =>
        /\ outs[1] # EmptyStr
        /\ given.kind = "sections" => outs[1] = SectionOf(LabelledLines)
        /\ given.kind = "plain" => outs[1] = None

\* C17 (amended): the same, for texts none of whose inclusion and exclusion
\* lines contains "Criteria:"; each returned line is stripped of its
\* surrounding whitespace.
C17_CriteriaSplitPlainLines ==
    (op = "parse_criteria" /\ outs # << >>) =>
        /\ outs[1] # EmptyStr
        /\ ( /\ given.kind = "sections"
             /\ \A i \in 1..Len(given.incl) : ~Contains(given.incl[i], CriteriaColon)
             /\ \A i \in 1..Len(given.excl) : ~Contains(given.excl[i], CriteriaColon) )
           => outs[1] = SectionOf(LabelledLines)
        /\ given.kind = "plain" => outs[1] = None

\* C17 witness: the inclusion section of a text with two inclusion lines, one
\* of them padded, and a blank exclusion line.
C17_Witness ==
    /\ op = "parse_criteria"
    /\ outs # << >>
    /\ args[2] = InclusionLabel
    /\ given.kind = "sections"
    /\ given.incl = << <<"A">>, <<" ", "C", " ">> >>
    /\ given.excl = << << >> >>
    /\ outs[1] = Str(<<"A", "\n", "C">>)

\* A raw candidate that is a mapping whose sections are mappings.
IsValidCandidate(raw) ==
    /\ raw.t = "dict"
    /\ ~HasNonMapping(raw, "protocolSection")
    /\ ~HasNonMapping(raw, "derivedSection")

\* C18: the output of structure_data is a list no longer than the input, and
\* its records (the elements that are not None) are those of the valid
\* candidates in the order of the input: the i-th record has the nct id of the
\* i-th valid candidate.
C18_OrderPreserved ==
    (op = "structure_data" /\ outs # << >>) =>
        /\ outs[1].t = "list"
        /\ Len(outs[1].xs) <= Len(args)
        /\ LET valid == SelectSeq(args, IsValidCandidate)
               records == SelectSeq(outs[1].xs, IsNotNone)
           IN /\ Len(records) = Len(valid)
              /\ \A i \in 1..Len(valid) :
                    /\ records[i].t = "dict"
                    /\ records[i].m["nct_id"] =
                          valid[i].m["protocolSection"].m["identificationModule"].m["nctId"]

\* C18 witness: two different valid candidates around a null one.
C18_Witness ==
    /\ op = "structure_data"
    /\ outs # << >>
    /\ args = <<StudyB, None, StudyA>>
    /\ Len(outs[1].xs) = 2

NoSpan(s) == ~ \E i \in 1..Len(s) : \E j \in (i + 1)..Len(s) : s[i] = "<" /\ s[j] = ">"

\* c is r without some '<...>' spans: every other character kept, in order.
RECURSIVE SpansRemoved(_, _)
SpansRemoved(r, c) ==
    IF r = << >> THEN c = << >>
    ELSE \/ c # << >> /\ Head(r) = Head(c) /\ SpansRemoved(Tail(r), Tail(c))
         \/ /\ Head(r) = "<"
            /\ \E j \in 2..Len(r) : r[j] = ">" /\ SpansRemoved(SubSeq(r, j + 1, Len(r)), c)

\* The raw free texts of a candidate and the fields of the record they go to.
FreeTexts(study, record) ==
    LET protocol_section == Get(study, "protocolSection", EmptyDict)
        description == Get(protocol_section, "descriptionModule", EmptyDict)
    IN { <<Get(description, "briefSummary", EmptyStr), record.m["brief_summary"]>>,
         <<Get(description, "detailedDescription", EmptyStr), record.m["detailed_description"]>>,
         <<Get(Get(protocol_section, "eligibilityModule", EmptyDict), "eligibilityCriteria", EmptyStr),
           record.m["eligibility"].m["criteria"]>> }

\* C20: in a record produced by structure_clinical_trial, each of
\* brief_summary, detailed_description and eligibility.criteria has no "<"
\* followed later by a ">", is the raw text without some '<...>' spans, and is
\* left unchanged by another stripping.
C20_TagsStripped ==
    (op = "structure_clinical_trial" /\ outs # << >> /\ outs[1].t = "dict") =>
        \A f \in FreeTexts(given, outs[1]) :
            /\ f[2].t = "str"
            /\ NoSpan(f[2].s)
            /\ SpansRemoved(f[1].s, f[2].s)
            /\ clean_html(f[2]) = f[2]

\* The pageToken of mapping m, Absent when it has none.
TokenIn(m) == IF "pageToken" \in DOMAIN m THEN m["pageToken"] ELSE Absent

\* The continuation tokens invocation j has received.
TokensReceived(j) ==
    { inv[j].responses[m].data["nextPageToken"] :
        m \in { n \in 1..Len(inv[j].responses) : CarriesToken(inv[j].responses[n]) } }

\* C11: in a session of invocations through the facade, interleaved or not,
\* the caller's mapping stays as the caller supplied it, every invocation works
\* on a params object of its own, and the pageToken an invocation sends is the
\* caller's (or none) on its first request and afterwards the token of its own
\* previous response, never a token another invocation received.
C11_FacadeIsolation ==
    \A i \in 1..Len(inv) :
        inv[i].kind = "facade" =>
            /\ heap[0] = given
            /\ inv[i].ref # 0
            /\ \A j \in (1..Len(inv)) \ {i} : inv[j].kind = "facade" => inv[j].ref # inv[i].ref
            /\ \A k \in 1..Len(inv[i].requests) :
                  /\ k = 1 => TokenIn(inv[i].requests[k]) = TokenIn(given)
                  /\ k > 1 => TokenIn(inv[i].requests[k]) = inv[i].responses[k - 1].data["nextPageToken"]
                  /\ \A j \in (1..Len(inv)) \ {i} : TokenIn(inv[i].requests[k]) \notin TokensReceived(j)

\* C11 witness: two invocations through the facade in flight together, each
\* past its first page.
C11_Witness ==
    /\ Len(inv) >= 2
    /\ \A i \in 1..2 :
        /\ inv[i].kind = "facade"
        /\ Running(i)
        /\ Len(inv[i].requests) >= 2

\* C12: in a session of fetch_studies calls made one after the other with the
\* same params mapping, the first request of every call carries the pageToken
\* the caller supplied, or none when the caller supplied none (no token left
\* over from an earlier call), and the calls that returned returned the same
\* records and total.
C12_RepeatableFetch ==
    \A i \in 1..Len(inv) :
        inv[i].kind = "direct" =>
            /\ Len(inv[i].requests) >= 1 => TokenIn(inv[i].requests[1]) = TokenIn(given)
            /\ \A j \in 1..Len(inv) :
                  (inv[i].pc = "done" /\ inv[j].pc = "done") => inv[i].outcome = inv[j].outcome

\* The eligibility text of a candidate ('' when it has none) and the record's
\* combined criteria text.
CriteriaSource(study) ==
    Get(Get(Get(study, "protocolSection", EmptyDict), "eligibilityModule", EmptyDict),
        "eligibilityCriteria", EmptyStr)

\* s has a "<" followed on the same line by a ">".
HasLineSpan(s) ==
    \E i \in 1..Len(s) : \E j \in (i + 1)..Len(s) :
        s[i] = "<" /\ s[j] = ">" /\ \A k \in (i + 1)..(j - 1) : s[k] # "\n"

NoCriteriaColon(ls) == \A i \in 1..Len(ls) : ~Contains(ls[i], CriteriaColon)

\* C21 (as stated): in every record structure_clinical_trial produces, the
\* combined criteria text equals the eligibilityCriteria text of the source
\* record.
C21_CriteriaUnmodified ==
    (op = "structure_clinical_trial" /\ outs # << >> /\ outs[1].t = "dict") =>
        outs[1].m["eligibility"].m["criteria"] = CriteriaSource(given)

\* C21 (amended): the combined criteria text is the source text without its
\* '<...>' spans that lie within one line, so it equals the source text when
\* the source has no such span; the split sections are taken from the source
\* text itself, markup included: for a text with both marker lines and no other
\* line containing "Criteria:" they are the non-blank lines of each section,
\* and for a text without "Criteria:" they are both None.
C21_CriteriaTagStripped ==
    (op = "structure_clinical_trial" /\ outs # << >> /\ outs[1].t = "dict") =>
        LET source == CriteriaSource(given)
            criteria == outs[1].m["eligibility"].m["criteria"]
        IN /\ criteria.t = "str"
           /\ ~HasLineSpan(criteria.s)
           /\ SpansRemoved(source.s, criteria.s)
           /\ ~HasLineSpan(source.s) => criteria = source
           /\ ~Contains(source.s, CriteriaColon) =>
                 /\ outs[1].m["inclusion_criteria"] = None
                 /\ outs[1].m["exclusion_criteria"] = None
           /\ \A e \in EligibilityStudies :
                 (e.study = given /\ NoCriteriaColon(e.incl) /\ NoCriteriaColon(e.excl)) =>
                     /\ outs[1].m["inclusion_criteria"] = SectionOf(e.incl)
                     /\ outs[1].m["exclusion_criteria"] = SectionOf(e.excl)

\* C21 witness: a record extracted from a text whose inclusion section is a
\* marked-up line: the combined text lost the markup, the section kept it.
C21_Witness ==
    /\ op = "structure_clinical_trial"
    /\ outs # << >>
    /\ given = TextStudy(SectionedText(<<MarkedUpLine>>, << <<"A">> >>))
    /\ outs[1].m["eligibility"].m["criteria"] # CriteriaSource(given)
    /\ outs[1].m["inclusion_criteria"] = Str(MarkedUpLine)
    /\ outs[1].m["exclusion_criteria"] = Str(<<"A">>)

\* The value a candidate holds under 'locations', Absent when it has none.
SourceLocations(study) ==
    IF study.t # "dict" \/ "protocolSection" \notin DOMAIN study.m THEN Absent
    ELSE LET protocol_section == study.m["protocolSection"]
         IN IF protocol_section.t # "dict" \/ "contactsLocationsModule" \notin DOMAIN protocol_section.m
            THEN Absent
            ELSE LET locations_module == protocol_section.m["contactsLocationsModule"]
                 IN IF locations_module.t # "dict" \/ "locations" \notin DOMAIN locations_module.m
                    THEN Absent
                    ELSE locations_module.m["locations"]

IsMapping(v) == v.t = "dict"
HasFacility(v) == v.t = "dict" /\ "facility" \in DOMAIN v.m
\* The value of a mapping under key, null when it has none.
Field(c, key) == IF key \in DOMAIN c.m THEN c.m[key] ELSE None

\* The entries of `locations` are those of the candidates `kept`, in order:
\* the same number, each with the city and the country of its candidate.
EntriesFollow(locations, kept) ==
    /\ locations.t = "list"
    /\ Len(locations.xs) = Len(kept)
    /\ \A i \in 1..Len(kept) :
          /\ locations.xs[i].t = "dict"
          /\ DOMAIN locations.xs[i].m = {"facility", "city", "country"}
          /\ locations.xs[i].m["city"] = Field(kept[i], "city")
          /\ locations.xs[i].m["country"] = Field(kept[i], "country")

\* C22 (as stated): the locations of a structured record have one entry, in
\* source order, for exactly the location candidates that are mappings with a
\* facility; a candidate that is no mapping or has no facility is skipped.
C22_FacilityRequired ==
    ( /\ op = "structure_clinical_trial" /\ outs # << >> /\ outs[1].t = "dict"
      /\ SourceLocations(given).t = "list" )
    => EntriesFollow(outs[1].m["locations"], SelectSeq(SourceLocations(given).xs, HasFacility))

\* C22 (amended): the locations of a structured record have one entry, in
\* source order, for exactly the location candidates that are mappings; a
\* candidate that is no mapping is skipped, and a mapping without a facility
\* is kept with a null facility.
C22_MappingsKept ==
    ( /\ op = "structure_clinical_trial" /\ outs # << >> /\ outs[1].t = "dict"
      /\ SourceLocations(given).t = "list" )
    => LET kept == SelectSeq(SourceLocations(given).xs, IsMapping)
       IN /\ EntriesFollow(outs[1].m["locations"], kept)
          /\ \A i \in 1..Len(kept) :
                ~HasFacility(kept[i]) => outs[1].m["locations"].xs[i].m["facility"] = None

\* C22 witness: a mapping without facility, a bare string and a mapping with a
\* facility gave two entries.
C22_Witness ==
    /\ op = "structure_clinical_trial"
    /\ outs # << >>
    /\ given = LocationStudy(List(<< Dict("city" :> Str(<<"m">>)), Str(<<"H">>),
                                     Dict("facility" :> Str(<<"F">>) @@ "city" :> Str(<<"c">>) @@
                                          "country" :> Str(<<"u">>)) >>))
    /\ Len(outs[1].m["locations"].xs) = 2

\* The facility a mapping-shaped candidate stands for.
FacilityOf(c) ==
    IF ~HasFacility(c) THEN None
    ELSE IF c.m["facility"].t = "dict" THEN Field(c.m["facility"], "name")
    ELSE c.m["facility"]
BareEntry(name) == Dict("facility" :> name @@ "city" :> None @@ "country" :> None)

\* C23 (as stated): for each candidate of the source locations sequence, a
\* facility given as a nested mapping yields an entry with the nested name, and
\* a candidate given as a bare string yields an entry with that string as
\* facility and null city and country.
C23_StringCandidateKept ==
    ( /\ op = "structure_clinical_trial" /\ outs # << >> /\ outs[1].t = "dict"
      /\ SourceLocations(given).t = "list" )
    => LET xs == SourceLocations(given).xs
           entries == outs[1].m["locations"].xs
       IN \A i \in 1..Len(xs) :
            /\ (HasFacility(xs[i]) /\ xs[i].m["facility"].t = "dict") =>
                  \E k \in 1..Len(entries) : entries[k].m["facility"] = Field(xs[i].m["facility"], "name")
            /\ xs[i].t = "str" => \E k \in 1..Len(entries) : entries[k] = BareEntry(xs[i])

\* C23 (amended): the entry of a mapping-shaped candidate has as facility the
\* nested name when its facility is a mapping (null when that has no name) and
\* the facility itself when it is a bare string; a bare string among the
\* candidates of the sequence is skipped; when the locations value is itself a
\* bare string and no sequence, the record has the single entry with that
\* string as facility and null city and country.
C23_FacilityShapes ==
    (op = "structure_clinical_trial" /\ outs # << >> /\ outs[1].t = "dict") =>
        LET source == SourceLocations(given)
            entries == outs[1].m["locations"]
        IN /\ source.t = "list" =>
                LET kept == SelectSeq(source.xs, IsMapping)
                IN /\ Len(entries.xs) = Len(kept)
                   /\ \A i \in 1..Len(kept) : entries.xs[i].m["facility"] = FacilityOf(kept[i])
                   /\ \A j \in 1..Len(source.xs) :
                         source.xs[j].t = "str" =>
                             \A k \in 1..Len(entries.xs) : entries.xs[k].m["facility"] # source.xs[j]
           /\ source.t = "str" => entries = List(<<BareEntry(source)>>)

\* C23 witness: a candidate with a nested facility mapping after a bare string.
C23_Witness ==
    /\ op = "structure_clinical_trial"
    /\ outs # << >>
    /\ given = LocationStudy(List(<< Str(<<"H">>),
                                     Dict("facility" :> Dict("name" :> Str(<<"G">>)) @@ "city" :> Str(<<"k">>)) >>))
    /\ outs[1].m["locations"] =
          List(<< Dict("facility" :> Str(<<"G">>) @@ "city" :> Str(<<"k">>) @@ "country" :> None) >>)

\* C24: a 200 response that lacks 'studies', 'totalCount' or 'nextPageToken'
\* never makes fetch_studies raise (it raises only on a response that is not
\* 200); once such a response is processed, a missing 'studies' has added no
\* record and a missing 'totalCount' has left the total at its previous value
\* (0 if none was reported before); and a first page with none of the three
\* keys yields the result (empty sequence, 0).
C24_PermissiveResponses ==
    /\ fetched.t = "raise" => ~IsOk(responses[Len(responses)])
    /\ (pc \in {"request", "done"} /\ responses # << >>) =>
          LET n == Len(responses)
          IN /\ "studies" \notin DOMAIN responses[n].data => all_studies = ConcatPages(responses, n - 1)
             /\ ~CarriesTotal(responses[n]) => total_count = LastSeenTotal(SubSeq(responses, 1, n - 1))
    /\ (pc = "done" /\ Len(responses) = 1 /\ DOMAIN responses[1].data = {}) =>
          /\ fetched = Return(<< >>, PyInt(0))
          /\ result = Return(<< >>, PyInt(0))

\* C24 witness: a call that returned on a second page with none of the three
\* keys, with the records and the total of the first page.
C24_Witness ==
    /\ pc = "done"
    /\ Len(responses) = 2
    /\ DOMAIN responses[2].data = {}
    /\ CarriesTotal(responses[1])
    /\ fetched.total_count = responses[1].data["totalCount"]
    /\ Len(fetched.studies) = 2

\* The lines of a split section, none for None.
ResultLines(section) ==
    IF section.t # "str" THEN {}
    ELSE { SplitLines(section.s)[i] : i \in 1..Len(SplitLines(section.s)) }

\* No two lines of ls are the same once stripped.
DistinctLines(ls) == \A i, j \in 1..Len(ls) : i # j => Strip(ls[i]) # Strip(ls[j])

IsMarkerLine(line) ==
    \/ Contains(line, InclusionLabel \o <<" ">> \o CriteriaColon)
    \/ Contains(line, ExclusionLabel \o <<" ">> \o CriteriaColon)

\* C25: a line with "Criteria:" for another label ends the section being
\* collected, so for a text whose lines differ from one another no line is in
\* both the inclusion and the exclusion section of the record, and no line of
\* either section contains a section marker.
C25_SectionsDisjoint ==
    (op = "structure_clinical_trial" /\ outs # << >> /\ outs[1].t = "dict") =>
        \A e \in EligibilityStudies :
            (e.study = given /\ DistinctLines(e.incl \o e.excl)) =>
                LET inclusion == ResultLines(outs[1].m["inclusion_criteria"])
                    exclusion == ResultLines(outs[1].m["exclusion_criteria"])
                IN /\ inclusion \cap exclusion = {}
                   /\ \A line \in inclusion \cup exclusion : ~IsMarkerLine(line)

\* C26: once a 200 response is processed, fetch_studies is about to issue
\* another request exactly when the response object has the key
\* 'nextPageToken', whatever the value under it (null, the empty string and 0
\* included), and has returned exactly when the key is absent; the value is
\* copied into pageToken as it is and the next request carries it.
C26_ContinuesOnKey ==
    /\ (pc \in {"request", "done", "raised"} /\ responses # << >> /\ IsOk(responses[Len(responses)])) =>
          /\ pc = "request" <=> CarriesToken(responses[Len(responses)])
          /\ pc = "done" <=> ~CarriesToken(responses[Len(responses)])
          /\ pc = "request" => TokenIn(params) = responses[Len(responses)].data["nextPageToken"]
    /\ \A k \in 2..Len(requests) :
          /\ CarriesToken(responses[k - 1])
          /\ TokenIn(requests[k]) = responses[k - 1].data["nextPageToken"]
    /\ fetched.t = "return" => ~CarriesToken(responses[Len(responses)])

\* C26 witness: a call that went on after a null token and after an empty
\* token, and returned on the page without the key.
C26_Witness ==
    /\ pc = "done"
    /\ Len(requests) = 3
    /\ responses[1].data["nextPageToken"] = None
    /\ responses[2].data["nextPageToken"] = EmptyStr
    /\ TokenIn(requests[2]) = None
    /\ TokenIn(requests[3]) = EmptyStr

\* The top-level keys the formatters read from a record.
ConsumerKeys ==
    { "nct_id", "title", "status", "start_date", "end_date", "brief_summary", "study_design",
      "eligibility", "interventions", "outcomes", "publications" }

\* C27: every top-level key the formatters read is a key of every record
\* structure_clinical_trial returns, and formatting such a record with
\* _format_study_details or _format_study_summary never fails on a missing key.
C27_ConsumerKeysProduced ==
    /\ (op = "structure_clinical_trial" /\ outs # << >> /\ outs[1].t = "dict") =>
          ConsumerKeys \subseteq DOMAIN outs[1].m
    /\ (op \in {"_format_study_details", "_format_study_summary"} /\ outs # << >>) =>
          outs[1] # Raise("KeyError")

\* The number of leading 200 responses of rs.
OkPrefix(rs) ==
    LET ns == { n \in 0..Len(rs) : \A i \in 1..n : IsOk(rs[i]) }
    IN CHOOSE n \in ns : \A k \in ns : k <= n

\* C28: the inline fetch_studies of app.py never raises; a response with a
\* status other than 200 is the last one (no request follows it) and the call
\* then returns, like a call that reached the last page, the records of the
\* pages received before together with the last total seen; the caller gets
\* the same kind of value in both cases.
C28_AppReturnsPartial ==
    /\ pc # "raised"
    /\ fetched.t \in {"absent", "return"}
    /\ \A i \in 1..Len(responses) :
          ~IsOk(responses[i]) =>
              /\ i = Len(responses)
              /\ Len(requests) = i
              /\ pc \in {"response", "done"}
    /\ pc = "done" =>
          LET m == OkPrefix(responses)
          IN /\ fetched = Return(ConcatPages(responses, m), LastSeenTotal(SubSeq(responses, 1, m)))
             /\ result = fetched

\* C28 witness: the error came on the second page and the call returned the
\* two records and the total of the first.
C28_Witness ==
    /\ pc = "done"
    /\ Len(responses) = 2
    /\ ~IsOk(responses[2])
    /\ fetched = Return(<<StudyA, StudyB>>, PyInt(2))

\* The clauses the claim gives the date ranges: one for each range with both
\* bounds set.
BothSet(range) == range[1] # None /\ range[2] # None
ClaimedClauses(date_ranges) ==
    (IF BothSet(date_ranges["start_date_range"])
     THEN <<RangeClause(StartDateArea, date_ranges["start_date_range"][1], date_ranges["start_date_range"][2])>>
     ELSE << >>)
    \o (IF BothSet(date_ranges["end_date_range"])
        THEN <<RangeClause(CompletionDateArea, date_ranges["end_date_range"][1], date_ranges["end_date_range"][2])>>
        ELSE << >>)

\* What the claim says generate_query returns.
ClaimedQuery(content, date_ranges) ==
    IF content.json = Absent THEN None
    ELSE IF ClaimedClauses(date_ranges) = << >> THEN content.json
    ELSE IF IsDict(content.json)
    THEN Dict(MapSet(content.json.m, "filter.advanced", Str(JoinAnd(ClaimedClauses(date_ranges)))))
    ELSE Absent

\* C29: generate_query returns None on undecodable content; otherwise it
\* returns the decoded query, with 'filter.advanced' replaced by the
\* " AND "-joined clauses of the complete date ranges when there is one, and
\* untouched when there is none.
C29_DateFilters ==
    op = "generate_query" =>
        \A i \in 1..Len(outs) : outs[i] = ClaimedQuery(args[1], args[2])

\* The keys initialize_session_state tracks.
TrackedKeySet == { TrackedKeys[i] : i \in 1..Len(TrackedKeys) }

\* C30: whatever was written before, an initialize_session_state call leaves
\* every key that was present with the value it had, the nine tracked keys
\* are present after it and stay present through later writes and calls, and
\* a call that directly follows another one changes nothing.
C30_InitialisationKeeps ==
    /\ \A i \in 1..Len(state_log) :
          state_log[i].op = "initialize" =>
              /\ TrackedKeySet \subseteq DOMAIN state_log[i].after
              /\ \A k \in DOMAIN state_log[i].before : state_log[i].after[k] = state_log[i].before[k]
              /\ i > 1 /\ state_log[i - 1].op = "initialize" =>
                     state_log[i].after = state_log[i - 1].after
    /\ (\E i \in 1..Len(state_log) : state_log[i].op = "initialize") =>
          TrackedKeySet \subseteq DOMAIN session_state

\* C30 witness: total_count was written as None, then the initialisation ran
\* twice, and total_count is still None beside the defaults of the others.
C30_Witness ==
    /\ Len(state_log) = 3
    /\ state_log[1].op = "write"
    /\ state_log[2].op = "initialize"
    /\ state_log[3].op = "initialize"
    /\ "total_count" \in DOMAIN state_log[1].after
    /\ session_state["total_count"] = None
    /\ session_state["search_performed"] = Bool(FALSE)
====
